---- MODULE Spec2Model ----
(***************************************************************************)
(* Violation-detection and evidence-capture engine of the proctored exam   *)
(* (src/src/components/quiz/ProctorWrapper.tsx): the violation store with  *)
(* its cooldown table, the visibility monitor, the screen-share monitor,   *)
(* the session clock and the finalizer.                                    *)
(*                                                                         *)
(* React state is modelled by its value after every queued updater has     *)
(* run (violations, captureLogs, timeLeft); the refs that mirror it        *)
(* (violationsRef, captureLogsRef) and the closures of the last render     *)
(* (doFinish's timeLeft) lag behind until RenderCommit.  Every `await` of  *)
(* the source is a point where the handler is suspended: the part before   *)
(* it and the part after it are separate steps.                            *)
(***************************************************************************)
EXTENDS Integers, Sequences, FiniteSets, TLC

\* ------------------------------------------------------------------ bounds
\* Date.now() when the session starts (any value past the first cooldown).
StartMs == 50000
\* Granularity of the wall clock, and how many times it advances.
ClockStepMs == 5000
MaxClockSteps == 2
\* addViolation calls per session (suppressed calls included).
MaxCalls == 3
\* Configured session duration, in seconds (durationSeconds).
Duration == 2
\* Saturation of the history counters that count doFinish invocations.
MaxCount == 2
\* Time between two animation frames that run a face-detection cycle, and
\* how many such frames the session sees.
FrameStepMs == 750
MaxFrameSteps == 5
\* performance.now() when the session starts (age of the page).
PageAgeMs == 1000
\* Band energy of a quiet and of a loud audio sample.
QuietLevel == 20
LoudLevel == 40
\* Loud samples during the calibration.
MaxCalSpikes == 1
\* Loud samples during the calibration, where the calibration alone is checked.
MaxCalLoud == 24
\* Audio samples above the margin in a row while a recording runs.
MaxVoiceFrames == 6
\* Runs of samples that bring the voice-frame counter to its limit.
MaxRuns == 3
\* Granularity of the clock while a recording runs, and how often it advances.
RecordStepMs == 6000
MaxRecordSteps == 3
\* Periodic captures taken.
MaxCaptures == 1
\* Key presses.
MaxKeys == 1
\* Recordings that run to their end.
MaxElapses == 2
\* Times the document enters or leaves fullscreen.
MaxFsChanges == 3
\* Display polls.
MaxPolls == 3

\* ------------------------------------------------------- program constants
COOLDOWN_MS == 10000
COUNTDOWN_START == 5
CHECK_MS == 200
GAZE_YAW_THRESHOLD == 25
GAZE_PITCH_THRESHOLD == 30
GAZE_AWAY_MS == 1500
\* 0.72, in hundredths (similarities are kept in hundredths)
SIM_THRESHOLD == 72
CALIBRATION_FRAMES == 120
NOISE_MARGIN == 12
NOISE_COOLDOWN_MS == 12000
RECORD_DURATION_MS == 12000
\* the delay between requestData and stop, line 374
STOP_DELAY_MS == 100
\* baseline before the calibration ends, line 303
DEFAULT_BASELINE == 28

\* absent optional values
NoMs == -1
NoCount == -1
NoShot == 0
NoDetail == ""
NoSim == -1

ViolationType ==
  {"TAB_SWITCH", "WINDOW_BLUR", "NO_FACE", "MULTIPLE_FACES", "IDENTITY_MISMATCH",
   "FULLSCREEN_EXIT", "COPY_ATTEMPT", "DEVTOOLS_OPEN", "CONTEXT_MENU",
   "SCREEN_SHARE_STOPPED", "NOISE_DETECTED", "AUDIO_DETECTED",
   "MULTIPLE_MONITORS", "KEYBOARD_SHORTCUT", "GAZE_AWAY"}

Severity(type) ==
  IF type \in {"WINDOW_BLUR", "COPY_ATTEMPT", "CONTEXT_MENU", "NOISE_DETECTED",
               "KEYBOARD_SHORTCUT"}
  THEN "warn" ELSE "error"

DETAIL_SECOND == "Screen sharing stopped a second time - exam ended."
DETAIL_AGAIN == "Screen sharing stopped again - exam ended."

\* options bag of addViolation, with the defaults of an absent field
Opts(captureScreen, detail, skipCooldown) ==
  [captureScreen |-> captureScreen, awayMs |-> NoMs, detail |-> detail,
   skipCooldown |-> skipCooldown, audioUrl |-> NoShot]
NoOpts == Opts(FALSE, NoDetail, FALSE)

VARIABLES
  proctorEnabled,       \* the proctorEnabled prop
  now,                  \* Date.now()
  hidden,               \* document.hidden
  violations,           \* useState: the violation list
  captureLogs,          \* useState: the capture log
  violationsRef,        \* useRef mirror of violations (set by an effect)
  captureLogsRef,       \* useRef mirror of captureLogs
  cooldownRef,          \* kind -> time of the last accepted report (0: never)
  tabHiddenAtRef,       \* time the tab was hidden (0: null)
  pending,              \* addViolation calls suspended at their await
  nextId,               \* source of fresh identifiers (uid)
  submittedRef,         \* the finalize guard
  timeLeft,             \* useState: remaining seconds
  doFinishTimeLeft,     \* timeLeft captured by the doFinish of the last render
  timerRef,             \* TRUE while the session-clock interval is scheduled
  pendingSubmit,        \* useState: the confirmation dialog is open
  screens,              \* every screen stream: [live, listener]
  screenRef,            \* index in screens of the tracked screen source
  webcamLive, micLive,  \* readyState of the webcam and microphone tracks
  screenStopCountRef,
  screenCountdownRef,   \* TRUE while the reshare-countdown interval is scheduled
  remaining,            \* the countdown closure's counter
  screenShareCountdown, \* useState: countdown shown by the overlay (NoCount: null)
  screenOk,             \* useState: screen-share health
  resharePending,       \* a getDisplayMedia picker is open
  missCount, multiCount, mismatchCount,   \* the face loop's counters
  gazeAwayStartRef,     \* start of the current look-away (0: null)
  lastCheck,            \* performance.now() of the last detection cycle
  faceStatus,           \* useState: 'ok' | 'none' | 'multiple' | 'mismatch'
  mpLandmarker,         \* proctoring.ts: the landmarker singleton is not null
  mpLoading,            \* proctoring.ts: the loading flag
  otherLoading,         \* a getLandmarker call of another component is loading
  detecting,            \* the loop's detectFaces call: "idle" (none in flight),
                        \* "loading" (it loads the model), "waiting" (it polls
                        \* the loading flag)
  calSamples,           \* the calibration samples: level -> how many
  baseline, calibrated, \* the audio loop's baseline
  voiceFrames,          \* the voice-frame counter
  saving,               \* a recording is in progress
  lastNoiseFlagMs,      \* performance.now() of the last noise flag (NoMs: never)
  recorders,            \* the MediaRecorders that are recording
  readers,              \* the FileReaders that are loading a stopped recording
  audioClips,           \* useState: the audio clips
  audioClipsRef,        \* useRef: the audio clips
  snapshots,            \* periodic captures whose snapshots are being taken
  captureCount,         \* how many periodic captures were taken
  keysSeen,             \* how many keydown events the handler has seen
  speechSupported,      \* the browser has a SpeechRecognition constructor
  recognition,          \* the recognizer was constructed and started
  isSpeechActive,       \* speech has started and not ended
  speechEndedAt,        \* performance.now() of the last speech end (NoMs: null)
  fullscreenElement,    \* document.fullscreenElement is not null
  fsEvents,             \* fullscreenchange events that were not dispatched yet
  fullscreenBlocked,    \* useState: the fullscreen overlay is shown
  fsPending,            \* onFs calls suspended at their snapshot
  multiMonitorBlocked,  \* useState: the multi-display overlay is shown
  \* history variables (read by the properties only)
  delivered,            \* payloads handed to onTimeUp / onManualSubmit
  stopAllCalls,         \* number of stopAll runs
  finishCalls,          \* origin -> number of doFinish invocations
  acceptedAtFinish,     \* ids of the reports accepted before the first finalize
  lastCall,             \* the last addViolation call
  hideCalls,            \* ids of the TAB_SWITCH reports, one per hide
  showLog,              \* per visibility restore: the id it patched (0: none)
  countdownTicks,       \* ticks of the running countdown
  timerTicks,           \* ticks of the session clock (saturating)
  fsChanges,            \* how often the document entered or left fullscreen
  pollCount,            \* how many display polls have run
  lastPoll,             \* the window.screen the last display poll read
  lastRejected,         \* the stream a re-share attempt returned and rejected
                        \* since the countdown's last tick
  faceLog,              \* the detection results so far, with the kinds each reported
  noiseLog              \* the runs that took the voice-frame counter to its limit

storeVars == <<violations, captureLogs, violationsRef, captureLogsRef,
               cooldownRef, pending, nextId, lastCall>>
tabVars == <<hidden, tabHiddenAtRef, hideCalls, showLog>>
finishVars == <<submittedRef, timerRef, screenCountdownRef, screens, webcamLive,
                micLive, delivered, stopAllCalls, finishCalls, acceptedAtFinish>>
clockVars == <<timeLeft, doFinishTimeLeft, pendingSubmit, timerTicks>>
screenVars == <<screenRef, screenStopCountRef, remaining, screenShareCountdown,
                screenOk, resharePending, countdownTicks, lastRejected>>
landmarkerVars == <<mpLandmarker, mpLoading, otherLoading, detecting>>
faceVars == <<missCount, multiCount, mismatchCount, gazeAwayStartRef, lastCheck,
              faceStatus, faceLog, landmarkerVars>>
audioVars == <<calSamples, baseline, calibrated, voiceFrames, saving,
               lastNoiseFlagMs, recorders, readers, audioClips, audioClipsRef,
               noiseLog>>
captureVars == <<snapshots, captureCount>>
keyVars == <<keysSeen>>
speechVars == <<speechSupported, recognition, isSpeechActive, speechEndedAt>>
displayVars == <<fullscreenElement, fsEvents, fsChanges, fullscreenBlocked, fsPending,
                 multiMonitorBlocked, pollCount, lastPoll>>
loopVars == <<faceVars, audioVars, captureVars, keyVars, speechVars, displayVars>>
vars == <<proctorEnabled, now, storeVars, tabVars, finishVars, clockVars,
          screenVars, loopVars>>

Origins == {"time-up", "manual", "countdown", "second-stop"}

Inc(c) == IF c < MaxCount THEN c + 1 ELSE c

\* the band energies an audio sample can have
AudioLevels == {QuietLevel, LoudLevel}

\* window.screen: isExtended (a browser without the property gives undefined)
\* and whether availWidth exceeds width
Screens == [isExtended : {"true", "false", "undefined"}, wide : BOOLEAN]

SingleScreen == [isExtended |-> "false", wide |-> FALSE]

\* no re-share attempt was rejected
NoReshare == [surface |-> "none", stopped |-> FALSE]

\* the state after construction, for a value of the proctorEnabled prop,
\* but for the landmarker singleton
InitBase(enabled, supported, started) ==
  /\ proctorEnabled = enabled
  /\ speechSupported = supported
  /\ recognition = started
  /\ isSpeechActive = FALSE
  /\ speechEndedAt = NoMs
  /\ fullscreenElement = TRUE
  /\ fsEvents = 0
  /\ fsChanges = 0
  /\ fullscreenBlocked = FALSE
  /\ fsPending = {}
  /\ multiMonitorBlocked = FALSE
  /\ pollCount = 0
  /\ lastPoll = SingleScreen
  /\ missCount = 0
  /\ multiCount = 0
  /\ mismatchCount = 0
  /\ gazeAwayStartRef = 0
  /\ lastCheck = 0
  /\ faceStatus = "ok"
  /\ faceLog = <<>>
  /\ calSamples = [l \in AudioLevels |-> 0]
  /\ baseline = DEFAULT_BASELINE
  /\ calibrated = FALSE
  /\ voiceFrames = 0
  /\ saving = FALSE
  /\ lastNoiseFlagMs = NoMs
  /\ recorders = {}
  /\ readers = {}
  /\ audioClips = <<>>
  /\ audioClipsRef = <<>>
  /\ noiseLog = <<>>
  /\ snapshots = {}
  /\ captureCount = 0
  /\ keysSeen = 0
  /\ now = StartMs
  /\ hidden = FALSE
  /\ violations = <<>>
  /\ captureLogs = <<>>
  /\ violationsRef = <<>>
  /\ captureLogsRef = <<>>
  /\ cooldownRef = [t \in ViolationType |-> 0]
  /\ tabHiddenAtRef = 0
  /\ pending = {}
  /\ nextId = 1
  /\ submittedRef = FALSE
  /\ timeLeft = Duration
  /\ doFinishTimeLeft = Duration
  /\ timerRef = TRUE
  /\ pendingSubmit = FALSE
  /\ screens = <<[live |-> TRUE, listener |-> "onScreenEnded"]>>
  /\ screenRef = 1
  /\ webcamLive = TRUE
  /\ micLive = TRUE
  /\ screenStopCountRef = 0
  /\ screenCountdownRef = FALSE
  /\ remaining = 0
  /\ screenShareCountdown = NoCount
  /\ screenOk = TRUE
  /\ resharePending = FALSE
  /\ delivered = <<>>
  /\ stopAllCalls = 0
  /\ finishCalls = [o \in Origins |-> 0]
  /\ acceptedAtFinish = {}
  /\ lastCall = [n |-> 0, type |-> "NO_FACE", skipCooldown |-> FALSE,
                 at |-> 0, stamp |-> 0, id |-> 0]
  /\ hideCalls = <<>>
  /\ showLog = <<>>
  /\ countdownTicks = 0
  /\ timerTicks = 0
  /\ lastRejected = NoReshare

\* the landmarker singleton at mount: loaded (the identity check before the
\* session has loaded it), never requested, being loaded by another
\* component's call, or left by a load that failed (proctoring.ts 105-130)
LandmarkerStates ==
  {[landmarker |-> TRUE, loading |-> FALSE, other |-> FALSE],
   [landmarker |-> FALSE, loading |-> FALSE, other |-> FALSE],
   [landmarker |-> FALSE, loading |-> TRUE, other |-> TRUE],
   [landmarker |-> FALSE, loading |-> TRUE, other |-> FALSE]}

LandmarkerLoaded == [landmarker |-> TRUE, loading |-> FALSE, other |-> FALSE]

InitLandmarkerAs(m) ==
  /\ mpLandmarker = m.landmarker
  /\ mpLoading = m.loading
  /\ otherLoading = m.other
  /\ detecting = "idle"

\* the state after construction with the landmark model loaded
InitWith(enabled, supported, started) ==
  /\ InitBase(enabled, supported, started)
  /\ InitLandmarkerAs(LandmarkerLoaded)

\* the state after construction, for each state of the landmarker singleton
InitLandmarker ==
  /\ InitBase(TRUE, TRUE, TRUE)
  /\ \E m \in LandmarkerStates : InitLandmarkerAs(m)

\* proctorEnabled = true is the prop's default (line 42)
\* the browser has a speech recognizer and it was started
InitState(enabled) == InitWith(enabled, TRUE, TRUE)

Init == InitState(TRUE)

InitAny == \E enabled \in BOOLEAN : InitState(enabled)

\* lines 311-328: the browser has no speech recognizer, or it has one that was
\* started, or it has one whose construction or start threw
InitSpeech ==
  \E supported, started \in BOOLEAN :
    /\ started => supported
    /\ InitWith(TRUE, supported, started)

\* ---------------------------------------------------------- violation store
CooldownInSeconds(table, type, o) ==
  /\ ~o.skipCooldown
  /\ type # "TAB_SWITCH"
  /\ table[type] + (COOLDOWN_MS \div 1000) > now

CooldownForEveryKind(table, type, o) ==
  /\ ~o.skipCooldown
  /\ table[type] + COOLDOWN_MS > now

\* addViolation, line 86: the report is dropped while the kind's cooldown runs
\* (table: cooldownRef.current)
CooldownActive(table, type, o) ==
  /\ ~o.skipCooldown
  /\ type # "TAB_SWITCH"
  /\ table[type] + COOLDOWN_MS > now

\* a table that is stamped only after the snapshots have settled
StampAfterAwait(table, type, o) == table

\* addViolation, line 87: the cooldown table after an accepted report
StampCooldown(table, type, o) ==
  IF ~o.skipCooldown THEN [table EXCEPT ![type] = now] ELSE table

\* snapStream up to its first await: is there a live video track to draw from
SnapStarts(live) == live

ScreenLive == screens[screenRef].live

\* the call suspended at `await Promise.all([snapStream ...])`, lines 94-97.
\* ts: the timestamp the record already has (NoMs: it is taken after the await)
Task(id, type, o) ==
  [id |-> id, type |-> type, captureScreen |-> o.captureScreen,
   awayMs |-> o.awayMs, detail |-> o.detail, audioUrl |-> o.audioUrl,
   ts |-> NoMs,
   wLive |-> SnapStarts(webcamLive),
   sLive |-> o.captureScreen /\ SnapStarts(ScreenLive)]

\* what addViolation reads and writes before its await
Store ==
  [cooldownRef |-> cooldownRef, pending |-> pending, nextId |-> nextId,
   lastCall |-> lastCall]

CallRecord(st, type, o, id) ==
  [n |-> st.lastCall.n + 1, type |-> type, skipCooldown |-> o.skipCooldown,
   at |-> now, stamp |-> st.cooldownRef[type], id |-> id]

\* addViolation, lines 85-97: everything that runs before the await, as the
\* store it leaves when it starts from store st
AddViolationOn(st, type, o) ==
  IF CooldownActive(st.cooldownRef, type, o)
  THEN [st EXCEPT !.lastCall = CallRecord(st, type, o, 0)]
  ELSE [cooldownRef |-> StampCooldown(st.cooldownRef, type, o),
        pending |-> st.pending \cup {Task(st.nextId, type, o)},
        nextId |-> st.nextId + 1,
        lastCall |-> CallRecord(st, type, o, st.nextId)]

SetStore(st) ==
  /\ cooldownRef' = st.cooldownRef
  /\ pending' = st.pending
  /\ nextId' = st.nextId
  /\ lastCall' = st.lastCall

\* one addViolation call of a handler
AddViolation(type, o) == SetStore(AddViolationOn(Store, type, o))

\* the session's budget of addViolation calls is not used up
CanCall == lastCall.n < MaxCalls

\* logCapture, lines 76-79 (the entry's own uid is never read and is left out)
CaptureEntry(kind, dataUrl, trigger) ==
  [timestamp |-> now, kind |-> kind, dataUrl |-> dataUrl, trigger |-> trigger]

LogAlways(log, shot, kind, trigger) ==
  Append(log, CaptureEntry(kind, shot, trigger))

\* lines 105-106: a capture is logged when the snapshot yielded an image
LogIf(log, shot, kind, trigger) ==
  IF shot # NoShot THEN Append(log, CaptureEntry(kind, shot, trigger)) ELSE log

\* the Violation built at lines 99-103, after the snapshots have settled
NewViolation(t, webcamShot, screenShot) ==
  [id |-> t.id, type |-> t.type, severity |-> Severity(t.type),
   timestamp |-> IF t.ts # NoMs THEN t.ts ELSE now, webcamShot |-> webcamShot, screenShot |-> screenShot,
   audioUrl |-> t.audioUrl, awayMs |-> t.awayMs, detail |-> t.detail]

\* addViolation, lines 99-107: the continuation after the await.  A snapshot
\* of a source that was live at the call either yields an image or fails.
AddViolationResume(t, wOk, sOk) ==
  /\ t \in pending
  /\ wOk => t.wLive
  /\ sOk => t.sLive
  /\ LET webcamShot == IF wOk THEN t.id ELSE NoShot
         screenShot == IF sOk THEN t.id ELSE NoShot
     IN /\ violations' = Append(violations, NewViolation(t, webcamShot, screenShot))
        /\ captureLogs' = LogIf(LogIf(captureLogs, webcamShot, "webcam", "violation"),
                                screenShot, "screen", "violation")
  /\ pending' = pending \ {t}
  /\ UNCHANGED <<violationsRef, captureLogsRef, cooldownRef, nextId, lastCall>>
  /\ UNCHANGED <<proctorEnabled, loopVars, now, tabVars, finishVars, clockVars, screenVars>>

\* ---------------------------------------------------------------- finalizer
\* stopAll, lines 552-556: stop the tracks of the three held sources
StopAll(scr) == [scr EXCEPT ![screenRef] = [@ EXCEPT !.live = FALSE]]

\* the payload of lines 565-570
Payload(cb, tl) ==
  [cb |-> cb, violations |-> violationsRef, captureLogs |-> captureLogsRef,
   audioClips |-> audioClipsRef, timeSpent |-> Duration - tl]

NeverSubmitted == FALSE

\* the guard of line 559
AlreadySubmitted == submittedRef

\* ids of the reports accepted so far (history)
AcceptedIds == {t.id : t \in pending} \cup {violations[i].id : i \in 1..Len(violations)}

\* the same, after the handler has called addViolation(type, o)
AcceptedWith(type, o) ==
  IF CooldownActive(cooldownRef, type, o) THEN AcceptedIds
  ELSE AcceptedIds \cup {nextId}

\* doFinish, lines 558-571.  cb: the callback; origin: the caller; tl: the
\* timeLeft its closure holds; scr, cd: the screens and the countdown interval
\* as the calling handler leaves them; acc: the reports accepted so far.
DoFinish(cb, origin, tl, scr, cd, acc) ==
  /\ finishCalls' = [finishCalls EXCEPT ![origin] = Inc(@)]
  /\ IF AlreadySubmitted
     THEN /\ screens' = scr
          /\ screenCountdownRef' = cd
          /\ UNCHANGED <<submittedRef, timerRef, webcamLive, micLive, delivered,
                         stopAllCalls, acceptedAtFinish>>
     ELSE /\ submittedRef' = TRUE
          /\ timerRef' = FALSE
          /\ screenCountdownRef' = FALSE
          /\ screens' = StopAll(scr)
          /\ webcamLive' = FALSE
          /\ micLive' = FALSE
          /\ stopAllCalls' = stopAllCalls + 1
          /\ delivered' = Append(delivered, Payload(cb, tl))
          /\ acceptedAtFinish' = acc

\* ------------------------------------------------------------ render/commit
\* A render and its effects: lines 73-74 copy the lists into the refs; a new
\* timeLeft gives a new doFinish (line 571), so the timer effect (580-588)
\* clears its interval and schedules a new one.
RenderCommit ==
  /\ \/ violationsRef # violations
     \/ captureLogsRef # captureLogs
     \/ doFinishTimeLeft # timeLeft
  /\ violationsRef' = violations
  /\ captureLogsRef' = captureLogs
  /\ doFinishTimeLeft' = timeLeft
  /\ timerRef' = IF doFinishTimeLeft # timeLeft THEN TRUE ELSE timerRef
  /\ UNCHANGED <<violations, captureLogs, cooldownRef, pending, nextId, lastCall>>
  /\ UNCHANGED <<submittedRef, screenCountdownRef, screens, webcamLive, micLive,
                 delivered, stopAllCalls, finishCalls, acceptedAtFinish>>
  /\ UNCHANGED <<timeLeft, pendingSubmit, timerTicks>>
  /\ UNCHANGED <<proctorEnabled, loopVars, now, tabVars, screenVars>>

\* -------------------------------------------------------------- wall clock
AdvanceClock ==
  /\ now + ClockStepMs <= StartMs + MaxClockSteps * ClockStepMs
  /\ now' = now + ClockStepMs
  /\ UNCHANGED <<proctorEnabled, loopVars, storeVars, tabVars, finishVars, clockVars,
                 screenVars>>

\* -------------------------------------------------------- window monitors
\* index of the last TAB_SWITCH record of vs (0: there is none), line 158
LastTabSwitch(vs) ==
  LET idx == {i \in 1..Len(vs) : vs[i].type = "TAB_SWITCH"}
  IN IF idx = {} THEN 0 ELSE CHOOSE i \in idx : \A j \in idx : j <= i

\* the record the restore handler patches, line 158
PatchTarget(vs) == LastTabSwitch(vs)

\* lines 156-161: the patch of the away-duration.  The record is mutated in
\* place, so a list that shares the object sees the new field as well.
PatchAway(vs, id, awayMs) ==
  [i \in 1..Len(vs) |-> IF vs[i].id = id THEN [vs[i] EXCEPT !.awayMs = awayMs]
                        ELSE vs[i]]

\* onVisibility, lines 147-150: the tab becomes hidden
OnVisibilityHidden ==
  /\ proctorEnabled
  /\ ~hidden
  /\ CanCall
  /\ hidden' = TRUE
  /\ tabHiddenAtRef' = now
  /\ AddViolation("TAB_SWITCH", Opts(TRUE, NoDetail, FALSE))
  /\ hideCalls' = Append(hideCalls, nextId)
  /\ UNCHANGED <<violations, captureLogs, violationsRef, captureLogsRef, showLog>>
  /\ UNCHANGED <<proctorEnabled, loopVars, now, finishVars, clockVars, screenVars>>

\* onVisibility, lines 151-163: the tab is visible again.  The restore comes
\* later than the hide on the wall clock.
OnVisibilityShown ==
  /\ proctorEnabled
  /\ hidden
  /\ now > tabHiddenAtRef
  /\ hidden' = FALSE
  /\ tabHiddenAtRef' = 0
  /\ LET awayMs == IF tabHiddenAtRef # 0 THEN now - tabHiddenAtRef ELSE 0
         k == PatchTarget(violations)
     IN IF awayMs # 0 /\ k # 0
        THEN /\ violations' = PatchAway(violations, violations[k].id, awayMs)
             /\ violationsRef' = PatchAway(violationsRef, violations[k].id, awayMs)
             /\ showLog' = Append(showLog, violations[k].id)
        ELSE /\ UNCHANGED <<violations, violationsRef>>
             /\ showLog' = Append(showLog, 0)
  /\ UNCHANGED <<captureLogs, captureLogsRef, cooldownRef, pending, nextId, lastCall,
                 hideCalls>>
  /\ UNCHANGED <<proctorEnabled, loopVars, now, finishVars, clockVars, screenVars>>

\* onBlur, line 165
OnBlur ==
  /\ proctorEnabled
  /\ CanCall
  /\ AddViolation("WINDOW_BLUR", NoOpts)
  /\ UNCHANGED <<violations, captureLogs, violationsRef, captureLogsRef>>
  /\ UNCHANGED <<proctorEnabled, loopVars, now, tabVars, finishVars, clockVars, screenVars>>

\* the document leaves fullscreen: the user presses Esc, or doFinish calls
\* exitFullscreen (line 564); a fullscreenchange event is queued
ExitFullscreen ==
  /\ proctorEnabled
  /\ fullscreenElement
  /\ fsChanges < MaxFsChanges
  /\ fullscreenElement' = FALSE
  /\ fsChanges' = fsChanges + 1
  /\ fsEvents' = fsEvents + 1
  /\ UNCHANGED <<fullscreenBlocked, fsPending, multiMonitorBlocked, pollCount, lastPoll>>
  /\ UNCHANGED <<proctorEnabled, now, storeVars, tabVars, finishVars, clockVars,
                 screenVars, faceVars, audioVars, captureVars, keyVars, speechVars>>

\* requestFullscreen is granted (the overlay's button, line 609)
EnterFullscreen ==
  /\ proctorEnabled
  /\ ~fullscreenElement
  /\ fsChanges < MaxFsChanges
  /\ fullscreenElement' = TRUE
  /\ fsChanges' = fsChanges + 1
  /\ fsEvents' = fsEvents + 1
  /\ UNCHANGED <<fullscreenBlocked, fsPending, multiMonitorBlocked, pollCount, lastPoll>>
  /\ UNCHANGED <<proctorEnabled, now, storeVars, tabVars, finishVars, clockVars,
                 screenVars, faceVars, audioVars, captureVars, keyVars, speechVars>>

FullscreenExitedAlways == TRUE

\* line 169
FullscreenExited == ~fullscreenElement

\* onFs, lines 168-171 and 174-176: a fullscreenchange event is dispatched;
\* after an exit the handler is suspended at its snapshot
OnFs ==
  /\ proctorEnabled
  /\ fsEvents > 0
  /\ fsEvents' = fsEvents - 1
  /\ IF FullscreenExited
     THEN /\ fullscreenBlocked' = TRUE
          /\ fsPending' = fsPending \cup {[n |-> fsChanges - fsEvents + 1,
                                            sLive |-> SnapStarts(ScreenLive)]}
     ELSE /\ fullscreenBlocked' = FALSE
          /\ fsPending' = fsPending
  /\ UNCHANGED <<fullscreenElement, fsChanges, multiMonitorBlocked, pollCount, lastPoll>>
  /\ UNCHANGED <<proctorEnabled, now, storeVars, tabVars, finishVars, clockVars,
                 screenVars, faceVars, audioVars, captureVars, keyVars, speechVars>>

\* onFs, lines 172-173, after the snapshot settled
OnFsResume(f, sOk) ==
  /\ f \in fsPending
  /\ sOk => f.sLive
  /\ fsPending' = fsPending \ {f}
  /\ captureLogs' = LogIf(captureLogs, IF sOk THEN f.n ELSE NoShot, "screen",
                          "fullscreen_exit")
  /\ AddViolation("FULLSCREEN_EXIT", Opts(TRUE, NoDetail, FALSE))
  /\ UNCHANGED <<violations, violationsRef, captureLogsRef>>
  /\ UNCHANGED <<fullscreenElement, fsEvents, fsChanges, fullscreenBlocked,
                 multiMonitorBlocked, pollCount, lastPoll>>
  /\ UNCHANGED <<proctorEnabled, now, tabVars, finishVars, clockVars,
                 screenVars, faceVars, audioVars, captureVars, keyVars, speechVars>>

REASON_MULTIPLE == "Multiple monitors detected"
REASON_EXTENDED == "Extended display detected"

DetectByIsExtendedOnly(scr) ==
  IF scr.isExtended = "true" THEN [detected |-> TRUE, reason |-> REASON_MULTIPLE]
  ELSE [detected |-> FALSE, reason |-> NoDetail]

\* detectMultipleMonitors, proctoring.ts lines 206-215
DetectMultipleMonitors(scr) ==
  IF scr.isExtended = "true" THEN [detected |-> TRUE, reason |-> REASON_MULTIPLE]
  ELSE IF scr.wide THEN [detected |-> TRUE, reason |-> REASON_EXTENDED]
  ELSE [detected |-> FALSE, reason |-> NoDetail]

\* checkMonitors, lines 180-188, at mount (189) and every 3000 ms (190), with
\* the window.screen it reads
CheckMonitors(scr) ==
  /\ proctorEnabled
  /\ pollCount < MaxPolls
  /\ pollCount' = pollCount + 1
  /\ lastPoll' = scr
  /\ LET res == DetectMultipleMonitors(scr)
     IN IF res.detected
        THEN /\ multiMonitorBlocked' = TRUE
             /\ AddViolation("MULTIPLE_MONITORS", Opts(FALSE, res.reason, FALSE))
        ELSE /\ multiMonitorBlocked' = FALSE
             /\ UNCHANGED <<cooldownRef, pending, nextId, lastCall>>
  /\ UNCHANGED <<violations, captureLogs, violationsRef, captureLogsRef>>
  /\ UNCHANGED <<fullscreenElement, fsEvents, fsChanges, fullscreenBlocked, fsPending>>
  /\ UNCHANGED <<proctorEnabled, now, tabVars, finishVars, clockVars,
                 screenVars, faceVars, audioVars, captureVars, keyVars, speechVars>>

KeyboardReportsWhenDisabled == TRUE

\* line 130
KeyboardReports == proctorEnabled

DETAIL_KEY == "key"

\* the keydown handler, lines 115-134; isBlocked: the test of lines 119-126
KeyDown(isBlocked) ==
  /\ keysSeen < MaxKeys
  /\ keysSeen' = keysSeen + 1
  /\ IF isBlocked /\ KeyboardReports
     THEN AddViolation("KEYBOARD_SHORTCUT", Opts(FALSE, DETAIL_KEY, FALSE))
     ELSE UNCHANGED <<cooldownRef, pending, nextId, lastCall>>
  /\ UNCHANGED <<violations, captureLogs, violationsRef, captureLogsRef>>
  /\ UNCHANGED <<proctorEnabled, faceVars, audioVars, captureVars, speechVars, displayVars, now, tabVars,
                 finishVars, clockVars, screenVars>>

\* -------------------------------------------------------- periodic capture
\* the interval callback of lines 541-545 starts both snapshots
PeriodicTick ==
  /\ proctorEnabled
  /\ captureCount < MaxCaptures
  /\ captureCount' = captureCount + 1
  /\ snapshots' = snapshots \cup {[n |-> captureCount + 1,
                                    wLive |-> SnapStarts(webcamLive),
                                    sLive |-> SnapStarts(ScreenLive)]}
  /\ UNCHANGED <<proctorEnabled, faceVars, audioVars, keyVars, speechVars, displayVars, now, storeVars,
                 tabVars, finishVars, clockVars, screenVars>>

\* lines 546-547, after both snapshots settled
PeriodicResume(p, wOk, sOk) ==
  /\ p \in snapshots
  /\ wOk => p.wLive
  /\ sOk => p.sLive
  /\ snapshots' = snapshots \ {p}
  /\ captureLogs' = LogIf(LogIf(captureLogs, IF wOk THEN p.n ELSE NoShot,
                                "webcam", "periodic"),
                          IF sOk THEN p.n ELSE NoShot, "screen", "periodic")
  /\ UNCHANGED <<violations, violationsRef, captureLogsRef, cooldownRef, pending,
                 nextId, lastCall, captureCount>>
  /\ UNCHANGED <<proctorEnabled, faceVars, audioVars, keyVars, speechVars, displayVars, now, tabVars,
                 finishVars, clockVars, screenVars>>

\* ------------------------------------------------------------ face monitor
\* performance.now(): the same clock, counted from the page's time origin
PerfNow == now - (StartMs - PageAgeMs)

\* time passes between two animation frames (line 531)
AdvanceFrame ==
  /\ now + FrameStepMs <= StartMs + MaxFrameSteps * FrameStepMs
  /\ now' = now + FrameStepMs
  /\ UNCHANGED <<proctorEnabled, loopVars, storeVars, tabVars, finishVars, clockVars,
                 screenVars>>

\* what detectFaces resolves to: null, or the landmarker's result reduced to
\* what the loop reads: the number of faces, whether the first face has a
\* transformation matrix, the yaw and pitch getHeadYaw / getHeadPitch derive
\* from it (degrees), and the cosine similarity of the face's embedding to
\* the reference, in hundredths (NoSim: no embedding or no reference)
NoResult ==
  [detected |-> FALSE, count |-> 0, matrix |-> FALSE, yaw |-> 0, pitch |-> 0,
   sim |-> NoSim]

Faces(count) ==
  [detected |-> TRUE, count |-> count, matrix |-> FALSE, yaw |-> 0, pitch |-> 0,
   sim |-> NoSim]

Single(matrix, yaw, pitch, sim) ==
  [detected |-> TRUE, count |-> 1, matrix |-> matrix, yaw |-> yaw, pitch |-> pitch,
   sim |-> sim]

Abs(x) == IF x < 0 THEN -x ELSE x

\* line 494
LookingAway(yaw, pitch) ==
  Abs(yaw) > GAZE_YAW_THRESHOLD \/ Abs(pitch) > GAZE_PITCH_THRESHOLD

GazeExpiredAfterOneCycle(awayMs) == awayMs >= CHECK_MS

\* line 498
GazeExpired(awayMs) == awayMs >= GAZE_AWAY_MS

MissReachedAtTwo(c) == c >= 2

\* line 481
MissReached(c) == c >= 3

MultiReachedAtOne(c) == c >= 1

\* line 485
MultiReached(c) == c >= 2

\* line 513
SimBelow(sim) == sim < SIM_THRESHOLD

MismatchReachedAtTwo(c) == c >= 2

MismatchReachedAtFour(c) == c >= 4

\* line 515
MismatchReached(c) == c >= 3

DETAIL_GAZE == "Yaw, Pitch"
DETAIL_SIM == "Similarity"

\* the loop body for a result with no face, lines 477-481
CycleNoFace ==
  LET miss == missCount + 1
      fire == MissReached(miss)
  IN [missCount |-> IF fire THEN 0 ELSE miss, multiCount |-> 0, mismatchCount |-> 0,
      gazeAwayStartRef |-> 0,
      faceStatus |-> IF fire THEN "none" ELSE faceStatus,
      store |-> IF fire THEN AddViolationOn(Store, "NO_FACE", NoOpts) ELSE Store,
      kinds |-> IF fire THEN {"NO_FACE"} ELSE {}]

\* the loop body for a result with several faces, lines 482-485
CycleMultiple ==
  LET multi == multiCount + 1
      fire == MultiReached(multi)
  IN [missCount |-> 0, multiCount |-> IF fire THEN 0 ELSE multi, mismatchCount |-> 0,
      gazeAwayStartRef |-> 0,
      faceStatus |-> IF fire THEN "multiple" ELSE faceStatus,
      store |-> IF fire THEN AddViolationOn(Store, "MULTIPLE_FACES", NoOpts) ELSE Store,
      kinds |-> IF fire THEN {"MULTIPLE_FACES"} ELSE {}]

IdentityOptsCooled == Opts(FALSE, DETAIL_SIM, FALSE)

\* the options of the identity report, line 517
IdentityOpts == Opts(FALSE, DETAIL_SIM, TRUE)

\* the loop body for a result with one face, lines 486-528: the gaze check
\* (489-506), then the identity check (508-527)
CycleSingle(res) ==
  LET away == res.matrix /\ LookingAway(res.yaw, res.pitch)
      start == IF ~res.matrix THEN gazeAwayStartRef
               ELSE IF ~away THEN 0
               ELSE IF gazeAwayStartRef = 0 THEN PerfNow ELSE gazeAwayStartRef
      gazeFire == away /\ GazeExpired(PerfNow - start)
      gazeStart == IF gazeFire THEN PerfNow ELSE start
      st1 == IF gazeFire
             THEN AddViolationOn(Store, "GAZE_AWAY", Opts(FALSE, DETAIL_GAZE, FALSE))
             ELSE Store
      status1 == IF gazeFire THEN "mismatch" ELSE faceStatus
      below == res.sim # NoSim /\ SimBelow(res.sim)
      mismatch == IF below THEN mismatchCount + 1 ELSE 0
      idFire == below /\ MismatchReached(mismatch)
  IN [missCount |-> 0, multiCount |-> 0,
      mismatchCount |-> IF idFire THEN 0 ELSE mismatch,
      gazeAwayStartRef |-> gazeStart,
      faceStatus |-> IF below THEN (IF idFire THEN "mismatch" ELSE status1)
                     ELSE IF gazeStart = 0 THEN "ok" ELSE status1,
      store |-> IF idFire
                THEN AddViolationOn(st1, "IDENTITY_MISMATCH", IdentityOpts)
                ELSE st1,
      kinds |-> (IF gazeFire THEN {"GAZE_AWAY"} ELSE {})
                \cup (IF idFire THEN {"IDENTITY_MISMATCH"} ELSE {})]

\* a loop that takes a missing result for a result without faces
HasResultAlways(res) == TRUE

\* line 476: detectFaces resolved to a result, not to null
HasResult(res) == res.detected

\* the loop's body from line 476 on, for the result res of detectFaces
CycleApply(res) ==
  /\ IF ~HasResult(res)
     THEN UNCHANGED <<missCount, multiCount, mismatchCount, gazeAwayStartRef,
                      faceStatus, faceLog, cooldownRef, pending, nextId, lastCall>>
     ELSE LET c == IF res.count = 0 THEN CycleNoFace
                   ELSE IF res.count > 1 THEN CycleMultiple
                   ELSE CycleSingle(res)
          IN /\ missCount' = c.missCount
             /\ multiCount' = c.multiCount
             /\ mismatchCount' = c.mismatchCount
             /\ gazeAwayStartRef' = c.gazeAwayStartRef
             /\ faceStatus' = c.faceStatus
             /\ SetStore(c.store)
             /\ faceLog' = Append(faceLog, [at |-> lastCheck', res |-> res,
                                             kinds |-> c.kinds])
  /\ UNCHANGED <<violations, captureLogs, violationsRef, captureLogsRef>>
  /\ UNCHANGED <<proctorEnabled, now, tabVars, finishVars, clockVars, screenVars,
                 audioVars, captureVars, keyVars, speechVars, displayVars>>

\* the loop is at line 470 and a detection is due (line 472)
CycleDue ==
  /\ proctorEnabled
  /\ detecting = "idle"
  /\ PerfNow - lastCheck >= CHECK_MS

\* loop, lines 469-532: one animation frame of the face loop whose detection
\* resolves to res without waiting for the model: the video is not ready
\* (null), or the landmarker is loaded.  The loop is the only reader and
\* writer of its counters and it judges the gaze by the time read at line
\* 471, so the frame is one step.  A frame that comes less than CHECK_MS
\* after the last cycle only schedules the next frame.
FaceCycle(res) ==
  /\ CycleDue
  /\ HasResult(res) => mpLandmarker
  /\ lastCheck' = PerfNow
  /\ CycleApply(res)
  /\ UNCHANGED landmarkerVars

\* loop line 474, detectFaces 133-135, getLandmarker 109-111: a detection
\* is due, the video is ready and the landmarker is not loaded.  The call
\* polls the loading flag when it is set, and otherwise sets it and loads.
DetectStart ==
  /\ CycleDue
  /\ ~mpLandmarker
  /\ lastCheck' = PerfNow
  /\ detecting' = IF mpLoading THEN "waiting" ELSE "loading"
  /\ mpLoading' = TRUE
  /\ UNCHANGED <<mpLandmarker, otherLoading>>
  /\ UNCHANGED <<missCount, multiCount, mismatchCount, gazeAwayStartRef, faceStatus,
                 faceLog>>
  /\ UNCHANGED <<proctorEnabled, now, storeVars, tabVars, finishVars, clockVars,
                 screenVars, audioVars, captureVars, keyVars, speechVars, displayVars>>

\* a load that throws leaves the loading flag as it is
FlagAfterFailedLoad == TRUE

\* getLandmarker, lines 112-129, as the loop's call runs it: the two awaits
\* settle.  ok: neither throws; the flag is cleared at line 128, which a
\* throw does not reach, and detectFaces' catch (137) turns the throw into
\* null.  res: what detectForVideo then returns.
LoadSettles(ok, res) ==
  /\ detecting = "loading"
  /\ detecting' = "idle"
  /\ mpLandmarker' = ok
  /\ mpLoading' = IF ok THEN FALSE ELSE FlagAfterFailedLoad
  /\ UNCHANGED <<otherLoading, lastCheck>>
  /\ CycleApply(IF ok THEN res ELSE NoResult)

\* getLandmarker, line 110, as the loop's call runs it: the flag was found
\* cleared by a poll, and `mpLandmarker!` is returned; detectForVideo on null
\* throws and detectFaces returns null.  While the flag is set the poll only
\* sets its next timeout.
WaitEnds(res) ==
  /\ detecting = "waiting"
  /\ ~mpLoading
  /\ detecting' = "idle"
  /\ UNCHANGED <<mpLandmarker, mpLoading, otherLoading, lastCheck>>
  /\ CycleApply(IF mpLandmarker THEN res ELSE NoResult)

\* getLandmarker, lines 112-129, as another component's call runs it
OtherLoadSettles(ok) ==
  /\ otherLoading
  /\ otherLoading' = FALSE
  /\ mpLandmarker' = (mpLandmarker \/ ok)
  /\ mpLoading' = IF ok THEN FALSE ELSE FlagAfterFailedLoad /\ mpLoading
  /\ UNCHANGED <<detecting, missCount, multiCount, mismatchCount, gazeAwayStartRef,
                 lastCheck, faceStatus, faceLog>>
  /\ UNCHANGED <<proctorEnabled, now, storeVars, tabVars, finishVars, clockVars,
                 screenVars, audioVars, captureVars, keyVars, speechVars, displayVars>>

\* ----------------------------------------------------------- audio monitor
\* time passes while the microphone is sampled and recorded
AdvanceRecording ==
  /\ now + RecordStepMs <= StartMs + MaxRecordSteps * RecordStepMs
  /\ now' = now + RecordStepMs
  /\ UNCHANGED <<proctorEnabled, loopVars, storeVars, tabVars, finishVars, clockVars,
                 screenVars>>

\* a recording runs to its end: the timeouts of lines 371-376 are due
RecordingElapses ==
  /\ readers = {}
  /\ now + RECORD_DURATION_MS + STOP_DELAY_MS
       <= StartMs + MaxElapses * (RECORD_DURATION_MS + STOP_DELAY_MS)
  /\ now' = now + RECORD_DURATION_MS + STOP_DELAY_MS
  /\ UNCHANGED <<proctorEnabled, loopVars, storeVars, tabVars, finishVars, clockVars,
                 screenVars>>

SampleCount(samples) == samples[QuietLevel] + samples[LoudLevel]

\* the element one place below the 80th percentile's
PercentileBelow80(samples) ==
  LET index == (SampleCount(samples) * 4) \div 5 - 1
      levels == {l \in AudioLevels :
                   LET upTo == IF l = QuietLevel THEN samples[QuietLevel]
                               ELSE SampleCount(samples)
                   IN upTo > index}
  IN CHOOSE l \in levels : \A m \in levels : l <= m

\* lines 400-401: the element at index floor(length * 0.80) of the sorted
\* samples, computed from how many samples each level has
Percentile80(samples) ==
  LET index == (SampleCount(samples) * 4) \div 5
      levels == {l \in AudioLevels :
                   LET upTo == IF l = QuietLevel THEN samples[QuietLevel]
                               ELSE SampleCount(samples)
                   IN upTo > index}
  IN CHOOSE l \in levels : \A m \in levels : l <= m

\* line 408
AboveMargin(avg) == avg > baseline + NOISE_MARGIN

VoiceReachedAtFour(c) == c >= 4

\* line 410
VoiceReached(c) == c >= 5

\* a monitor that flags whether or not a recording is in progress
NotSavingAlways == TRUE

\* line 410: no recording is in progress
NotSaving == ~saving

NoiseCooldownAlwaysOver(nowMs) == TRUE

\* line 413 (lastNoiseFlagMs starts at -Infinity)
NoiseCooldownOver(nowMs) ==
  lastNoiseFlagMs = NoMs \/ nowMs - lastNoiseFlagMs > NOISE_COOLDOWN_MS

DETAIL_LEVEL == "Level, baseline"

\* the NOISE_DETECTED record of lines 415-422, waiting for the webcam
\* snapshot of line 423; its timestamp is taken at the detection
NoiseTask ==
  [Task(nextId, "NOISE_DETECTED", Opts(FALSE, DETAIL_LEVEL, FALSE)) EXCEPT !.ts = now]

\* the recorder recordAndAttach starts, lines 330-377
Recorder(id, avg) ==
  [id |-> id, triggerMs |-> PerfNow, avg |-> avg, startedAt |-> PerfNow]

\* the calibration window has had fewer than max loud samples, or is complete
SpikesLeft(avg, max) ==
  calibrated \/ avg = QuietLevel \/ calSamples[LoudLevel] < max

\* check, lines 387-435: one audio sample with band energy avg.  recOk: the
\* MediaRecorder of line 339 can be constructed.
AudioSample(avg, recOk) ==
  /\ proctorEnabled
  /\ IF ~calibrated
     THEN /\ avg = LoudLevel => calSamples[LoudLevel] < MaxCalLoud
          /\ LET samples == [calSamples EXCEPT ![avg] = @ + 1]
                 done == SampleCount(samples) >= CALIBRATION_FRAMES
             IN /\ calSamples' = samples
                /\ baseline' = IF done THEN Percentile80(samples) ELSE baseline
                /\ calibrated' = done
          /\ UNCHANGED <<voiceFrames, saving, lastNoiseFlagMs, recorders, noiseLog,
                         pending, nextId>>
     ELSE IF AboveMargin(avg)
     THEN LET frames == voiceFrames + 1
              limit == VoiceReached(frames) /\ NotSaving
              flag == limit /\ NoiseCooldownOver(PerfNow)
          IN /\ frames <= MaxVoiceFrames
             /\ limit => Len(noiseLog) < MaxRuns
             /\ voiceFrames' = IF limit THEN 0 ELSE frames
             /\ lastNoiseFlagMs' = IF flag THEN PerfNow ELSE lastNoiseFlagMs
             /\ pending' = IF flag THEN pending \cup {NoiseTask} ELSE pending
             /\ nextId' = IF flag THEN nextId + 1 ELSE nextId
             /\ saving' = IF flag THEN recOk ELSE saving
             /\ recorders' = IF flag /\ recOk
                             THEN recorders \cup {Recorder(nextId, avg)}
                             ELSE recorders
             /\ noiseLog' = IF limit
                            THEN Append(noiseLog, [at |-> PerfNow, flagged |-> flag,
                                                   recorderAvailable |-> recOk])
                            ELSE noiseLog
             /\ UNCHANGED <<calSamples, baseline, calibrated>>
     ELSE /\ voiceFrames' = IF voiceFrames > 0 THEN voiceFrames - 1 ELSE 0
          /\ UNCHANGED <<calSamples, baseline, calibrated, saving, lastNoiseFlagMs,
                         recorders, noiseLog, pending, nextId>>
  /\ UNCHANGED <<readers, audioClips, audioClipsRef>>
  /\ UNCHANGED <<violations, captureLogs, violationsRef, captureLogsRef, cooldownRef,
                 lastCall>>
  /\ UNCHANGED <<proctorEnabled, now, tabVars, finishVars, clockVars, screenVars,
                 faceVars, captureVars, keyVars, speechVars, displayVars>>

\* the timeouts of lines 371-376 stop the recorder r and its onstop handler
\* (344-347, 367) runs.  blobOk: at least 200 bytes were recorded.
RecorderStop(r, blobOk) ==
  /\ r \in recorders
  /\ PerfNow - r.startedAt >= RECORD_DURATION_MS + STOP_DELAY_MS
  /\ recorders' = recorders \ {r}
  /\ saving' = FALSE
  /\ readers' = IF blobOk THEN readers \cup {r} ELSE readers
  /\ UNCHANGED <<calSamples, baseline, calibrated, voiceFrames, lastNoiseFlagMs,
                 audioClips, audioClipsRef, noiseLog>>
  /\ UNCHANGED <<proctorEnabled, now, storeVars, tabVars, finishVars, clockVars,
                 screenVars, faceVars, captureVars, keyVars, speechVars, displayVars>>

\* stopAll (lines 552-556) has stopped the microphone's tracks while r was
\* recording: the recorder stops before its timeouts and its onstop handler
\* (344-347, 367) runs
RecorderStopEarly(r, blobOk) ==
  /\ r \in recorders
  /\ ~micLive
  /\ recorders' = recorders \ {r}
  /\ saving' = FALSE
  /\ readers' = IF blobOk THEN readers \cup {r} ELSE readers
  /\ UNCHANGED <<calSamples, baseline, calibrated, voiceFrames, lastNoiseFlagMs,
                 audioClips, audioClipsRef, noiseLog>>
  /\ UNCHANGED <<proctorEnabled, now, storeVars, tabVars, finishVars, clockVars,
                 screenVars, faceVars, captureVars, keyVars, speechVars, displayVars>>

\* an attach that patches the newest record, whatever its identifier
AttachClipToLast(vs, id, dataUrl) ==
  [i \in 1..Len(vs) |-> IF i = Len(vs) THEN [vs[i] EXCEPT !.audioUrl = dataUrl]
                        ELSE vs[i]]

\* line 355: the clip is attached to the violation with the identifier
AttachClip(vs, id, dataUrl) ==
  [i \in 1..Len(vs) |-> IF vs[i].id = id THEN [vs[i] EXCEPT !.audioUrl = dataUrl]
                        ELSE vs[i]]

\* recognition.onspeechstart, line 322
SpeechStart ==
  /\ proctorEnabled
  /\ recognition
  /\ ~isSpeechActive
  /\ isSpeechActive' = TRUE
  /\ speechEndedAt' = NoMs
  /\ UNCHANGED <<speechSupported, recognition>>
  /\ UNCHANGED <<proctorEnabled, now, storeVars, tabVars, finishVars, clockVars,
                 screenVars, faceVars, audioVars, captureVars, keyVars, displayVars>>

\* recognition.onspeechend, line 323
SpeechEnd ==
  /\ proctorEnabled
  /\ recognition
  /\ isSpeechActive
  /\ isSpeechActive' = FALSE
  /\ speechEndedAt' = PerfNow
  /\ UNCHANGED <<speechSupported, recognition>>
  /\ UNCHANGED <<proctorEnabled, now, storeVars, tabVars, finishVars, clockVars,
                 screenVars, faceVars, audioVars, captureVars, keyVars, displayVars>>

\* a test that confirms speech only on the recognizer's word
SpeechInWindowFailClosed(r) ==
  \/ isSpeechActive
  \/ /\ speechEndedAt # NoMs
     /\ speechEndedAt >= r.triggerMs - 1000
     /\ speechEndedAt <= PerfNow + 500

\* lines 358-362
SpeechInWindow(r) ==
  \/ ~speechSupported
  \/ isSpeechActive
  \/ /\ speechEndedAt # NoMs
     /\ speechEndedAt >= r.triggerMs - 1000
     /\ speechEndedAt <= PerfNow + 500

\* reader.onloadend, lines 349-366, for the recording r
ReaderLoaded(r) ==
  /\ r \in readers
  /\ readers' = readers \ {r}
  /\ LET clip == [timestamp |-> now, dataUrl |-> r.id]
     IN /\ audioClipsRef' = Append(audioClipsRef, clip)
        /\ audioClips' = Append(audioClips, clip)
  /\ violations' = AttachClip(violations, r.id, r.id)
  /\ IF SpeechInWindow(r)
     THEN AddViolation("AUDIO_DETECTED", Opts(FALSE, DETAIL_LEVEL, FALSE))
     ELSE UNCHANGED <<cooldownRef, pending, nextId, lastCall>>
  /\ UNCHANGED <<captureLogs, violationsRef, captureLogsRef>>
  /\ UNCHANGED <<calSamples, baseline, calibrated, voiceFrames, saving,
                 lastNoiseFlagMs, recorders, noiseLog>>
  /\ UNCHANGED <<proctorEnabled, now, tabVars, finishVars, clockVars, screenVars,
                 faceVars, captureVars, keyVars, speechVars, displayVars>>

\* ------------------------------------------------------ screen-share monitor
\* the user stops sharing stream i: its track ends and the listener armed on
\* it runs: onScreenEnded (lines 199-228) on the original track, the listener
\* of lines 276-281 on a replacement.  Both were created by the first render,
\* so their doFinish holds timeLeft = durationSeconds.
ScreenTrackEnded(i) ==
  /\ proctorEnabled
  /\ i \in 1..Len(screens)
  /\ screens[i].live
  /\ CanCall
  /\ screenOk' = FALSE
  /\ screenStopCountRef' = screenStopCountRef + 1
  /\ LET scr == [screens EXCEPT ![i] = [@ EXCEPT !.live = FALSE]]
     IN IF screens[i].listener = "onScreenEnded"
        THEN IF screenStopCountRef + 1 >= 2
             THEN /\ AddViolation("SCREEN_SHARE_STOPPED", Opts(FALSE, DETAIL_SECOND, FALSE))
                  /\ DoFinish("onManualSubmit", "second-stop", Duration, scr,
                              screenCountdownRef,
                              AcceptedWith("SCREEN_SHARE_STOPPED",
                                           Opts(FALSE, DETAIL_SECOND, FALSE)))
                  /\ UNCHANGED <<remaining, screenShareCountdown, countdownTicks>>
             ELSE /\ AddViolation("SCREEN_SHARE_STOPPED", NoOpts)
                  /\ remaining' = COUNTDOWN_START
                  /\ screenShareCountdown' = COUNTDOWN_START
                  /\ screenCountdownRef' = TRUE
                  /\ countdownTicks' = 0
                  /\ screens' = scr
                  /\ UNCHANGED <<submittedRef, timerRef, webcamLive, micLive, delivered,
                                 stopAllCalls, finishCalls, acceptedAtFinish>>
        ELSE /\ AddViolation("SCREEN_SHARE_STOPPED", Opts(FALSE, DETAIL_AGAIN, FALSE))
             /\ DoFinish("onManualSubmit", "second-stop", Duration, scr,
                         screenCountdownRef,
                         AcceptedWith("SCREEN_SHARE_STOPPED",
                                      Opts(FALSE, DETAIL_AGAIN, FALSE)))
             /\ UNCHANGED <<remaining, screenShareCountdown, countdownTicks>>
  /\ UNCHANGED <<violations, captureLogs, violationsRef, captureLogsRef>>
  /\ UNCHANGED <<screenRef, resharePending, lastRejected>>
  /\ UNCHANGED <<proctorEnabled, loopVars, now, tabVars, clockVars>>

ScreenNeverMissing == FALSE

\* the test of line 223: the tracked source has no live track
NoLiveScreen == ~ScreenLive

\* the countdown interval's callback, lines 215-227
CountdownTick ==
  /\ screenCountdownRef
  /\ remaining' = remaining - 1
  /\ countdownTicks' = countdownTicks + 1
  /\ IF remaining - 1 <= 0
     THEN /\ screenShareCountdown' = NoCount
          /\ IF NoLiveScreen
             THEN DoFinish("onManualSubmit", "countdown", Duration, screens, FALSE,
                           AcceptedIds)
             ELSE /\ screenCountdownRef' = FALSE
                  /\ UNCHANGED <<submittedRef, timerRef, screens, webcamLive, micLive,
                                 delivered, stopAllCalls, finishCalls, acceptedAtFinish>>
     ELSE /\ screenShareCountdown' = remaining - 1
          /\ UNCHANGED finishVars
  /\ lastRejected' = NoReshare
  /\ UNCHANGED <<screenRef, screenStopCountRef, screenOk, resharePending>>
  /\ UNCHANGED <<proctorEnabled, loopVars, now, storeVars, tabVars, clockVars>>

\* the overlay's button (lines 638, 653): handleReshareScreen starts and is
\* suspended at getDisplayMedia, line 258
ReshareClick ==
  /\ proctorEnabled
  /\ screenShareCountdown # NoCount
  /\ ~resharePending
  /\ resharePending' = TRUE
  /\ lastRejected' = NoReshare
  /\ UNCHANGED <<screenRef, screenStopCountRef, remaining, screenShareCountdown,
                 screenOk, countdownTicks>>
  /\ UNCHANGED <<proctorEnabled, loopVars, now, storeVars, tabVars, finishVars, clockVars>>

Surfaces == {"monitor", "window", "unknown"}

\* the test of line 263: a surface that is reported and is not the display
PartialSurface(surface) == surface # "unknown" /\ surface # "monitor"

\* the surfaces a re-share is accepted with
WholeSurfaces == {surface \in Surfaces : ~PartialSurface(surface)}

CountdownKeptAfterReshare == screenCountdownRef

\* lines 271-274: an accepted re-share clears the countdown interval
CountdownAfterReshare == FALSE

\* a rejected stream whose tracks keep running
RejectedLeftOpen == FALSE

\* line 264: the tracks of a rejected stream are stopped
RejectedStopped == TRUE

\* handleReshareScreen, lines 262-282: the picker returned a stream
ReshareResolve(surface) ==
  /\ resharePending
  /\ resharePending' = FALSE
  /\ IF PartialSurface(surface)
     THEN /\ lastRejected' = [surface |-> surface, stopped |-> RejectedStopped]
          /\ UNCHANGED <<finishVars, screenRef, screenOk, screenShareCountdown>>
     ELSE /\ lastRejected' = NoReshare
          /\ screens' = Append(screens, [live |-> TRUE, listener |-> "reshare"])
          /\ screenRef' = Len(screens) + 1
          /\ screenOk' = TRUE
          /\ screenShareCountdown' = NoCount
          /\ screenCountdownRef' = CountdownAfterReshare
          /\ UNCHANGED <<submittedRef, timerRef, webcamLive, micLive, delivered,
                         stopAllCalls, finishCalls, acceptedAtFinish>>
  /\ UNCHANGED <<screenStopCountRef, remaining, countdownTicks>>
  /\ UNCHANGED <<proctorEnabled, loopVars, now, storeVars, tabVars, clockVars>>

\* handleReshareScreen, lines 283-285: the picker was dismissed
ReshareFail ==
  /\ resharePending
  /\ resharePending' = FALSE
  /\ UNCHANGED <<screenRef, screenStopCountRef, remaining, screenShareCountdown,
                 screenOk, countdownTicks, lastRejected>>
  /\ UNCHANGED <<proctorEnabled, loopVars, now, storeVars, tabVars, finishVars, clockVars>>

\* ------------------------------------------------------------ session clock
TimeIsUpAtZero == timeLeft <= 0

\* the test of line 583 on the remaining time the updater receives
TimeIsUp == timeLeft <= 1

\* the timer interval's callback, lines 581-586, with the doFinish of the
\* render that scheduled it
TimerTick ==
  /\ timerRef
  /\ timerTicks' = IF timerTicks <= Duration THEN timerTicks + 1 ELSE timerTicks
  /\ IF TimeIsUp
     THEN /\ DoFinish("onTimeUp", "time-up", doFinishTimeLeft, screens,
                      screenCountdownRef, AcceptedIds)
          /\ timeLeft' = 0
     ELSE /\ timeLeft' = timeLeft - 1
          /\ UNCHANGED finishVars
  /\ UNCHANGED <<doFinishTimeLeft, pendingSubmit>>
  /\ UNCHANGED <<proctorEnabled, loopVars, now, storeVars, tabVars, screenVars>>

RequestSubmitAndFinish ==
  /\ ~pendingSubmit
  /\ pendingSubmit' = TRUE
  /\ DoFinish("onManualSubmit", "manual", doFinishTimeLeft, screens,
              screenCountdownRef, AcceptedIds)
  /\ UNCHANGED <<timeLeft, doFinishTimeLeft, timerTicks>>
  /\ UNCHANGED <<proctorEnabled, loopVars, now, storeVars, tabVars, screenVars>>

\* requestSubmit, line 573
RequestSubmit ==
  /\ ~pendingSubmit
  /\ pendingSubmit' = TRUE
  /\ UNCHANGED <<timeLeft, doFinishTimeLeft, timerTicks>>
  /\ UNCHANGED <<proctorEnabled, loopVars, now, storeVars, tabVars, finishVars, screenVars>>

\* the dialog's Cancel button, line 669
CancelSubmit ==
  /\ pendingSubmit
  /\ pendingSubmit' = FALSE
  /\ UNCHANGED <<timeLeft, doFinishTimeLeft, timerTicks>>
  /\ UNCHANGED <<proctorEnabled, loopVars, now, storeVars, tabVars, finishVars, screenVars>>

\* confirmSubmit, lines 574-577
ConfirmSubmit ==
  /\ pendingSubmit
  /\ pendingSubmit' = FALSE
  /\ DoFinish("onManualSubmit", "manual", doFinishTimeLeft, screens,
              screenCountdownRef, AcceptedIds)
  /\ UNCHANGED <<timeLeft, doFinishTimeLeft, timerTicks>>
  /\ UNCHANGED <<proctorEnabled, loopVars, now, storeVars, tabVars, screenVars>>

\* The store and the window monitors alone: the finalizer, the clock and the
\* screen-share monitor neither read nor write the cooldown table, the
\* pending calls or the away-timer.  Here, and in SpecSession, a snapshot that
\* was started succeeds (what a record's snapshot fields hold decides nothing
\* about cooldowns, patches or finalization).
NextStore ==
  \/ AdvanceClock
  \/ \E t \in pending : AddViolationResume(t, t.wLive, t.sLive)
  \/ OnVisibilityHidden
  \/ OnVisibilityShown
  \/ OnBlur

SpecStore == Init /\ [][NextStore]_vars

\* The session: the finalizer with each of its triggers, the session clock
\* and the screen-share monitor, with the reports the screen-share monitor
\* makes.
NextSession ==
  \/ AdvanceClock
  \/ RenderCommit
  \/ \E t \in pending : AddViolationResume(t, t.wLive, t.sLive)
  \/ \E i \in 1..Len(screens) : ScreenTrackEnded(i)
  \/ CountdownTick
  \/ ReshareClick
  \/ \E surface \in WholeSurfaces : ReshareResolve(surface)
  \/ ReshareFail
  \/ TimerTick
  \/ RequestSubmit
  \/ CancelSubmit
  \/ ConfirmSubmit

SpecSession == Init /\ [][NextSession]_vars

\* The session, with re-shares of a window or a tab as well
NextReshare ==
  \/ AdvanceClock
  \/ RenderCommit
  \/ \E t \in pending : AddViolationResume(t, t.wLive, t.sLive)
  \/ \E i \in 1..Len(screens) : ScreenTrackEnded(i)
  \/ CountdownTick
  \/ ReshareClick
  \/ \E surface \in Surfaces : ReshareResolve(surface)
  \/ ReshareFail
  \/ TimerTick
  \/ RequestSubmit
  \/ CancelSubmit
  \/ ConfirmSubmit

SpecReshare == Init /\ [][NextReshare]_vars

\* head poses: at both thresholds, beyond the yaw threshold, beyond the pitch
\* threshold (downwards)
Poses ==
  {<<GAZE_YAW_THRESHOLD, GAZE_PITCH_THRESHOLD>>, <<GAZE_YAW_THRESHOLD + 1, 0>>,
   <<0, 0 - GAZE_PITCH_THRESHOLD - 1>>}

\* The face loop with the gaze check: no reference embedding is given
GazeResults ==
  {NoResult, Faces(0), Faces(2), Single(FALSE, 0, 0, NoSim)}
    \cup {Single(TRUE, p[1], p[2], NoSim) : p \in Poses}

NextGaze ==
  \/ AdvanceFrame
  \/ \E res \in GazeResults : FaceCycle(res)
  \/ \E t \in pending : AddViolationResume(t, t.wLive, t.sLive)

SpecGaze == Init /\ [][NextGaze]_vars

\* The face loop and the landmarker singleton, for each state the singleton
\* can be in at mount; the results carry no head pose and no embedding
LandmarkerResults == {NoResult, Faces(0), Single(FALSE, 0, 0, NoSim)}

NextLandmarker ==
  \/ AdvanceFrame
  \/ \E res \in LandmarkerResults : FaceCycle(res)
  \/ DetectStart
  \/ \E ok \in BOOLEAN : \E res \in LandmarkerResults : LoadSettles(ok, res)
  \/ \E res \in LandmarkerResults : WaitEnds(res)
  \/ \E ok \in BOOLEAN : OtherLoadSettles(ok)
  \/ \E t \in pending : AddViolationResume(t, t.wLive, t.sLive)

SpecLandmarker == InitLandmarker /\ [][NextLandmarker]_vars

\* the awaits of getLandmarker settle and the timeouts of its poll fire
SpecLandmarkerFair ==
  /\ SpecLandmarker
  /\ WF_vars(\E ok \in BOOLEAN : \E res \in LandmarkerResults : LoadSettles(ok, res))
  /\ WF_vars(\E res \in LandmarkerResults : WaitEnds(res))
  /\ WF_vars(\E ok \in BOOLEAN : OtherLoadSettles(ok))

\* The face loop with every branch of its body: no result, no face, two
\* faces, the student at the screen, and another face that looks away
CounterResults ==
  {NoResult, Faces(0), Faces(2), Single(TRUE, 0, 0, SIM_THRESHOLD),
   Single(TRUE, GAZE_YAW_THRESHOLD + 1, 0, SIM_THRESHOLD - 1)}

NextCounters ==
  \/ AdvanceFrame
  \/ \E res \in CounterResults : FaceCycle(res)
  \/ \E t \in pending : AddViolationResume(t, t.wLive, t.sLive)

SpecCounters == Init /\ [][NextCounters]_vars

\* The face loop with the identity check: the student looks at the screen
IdentityResults ==
  {NoResult, Faces(0), Faces(2)}
    \cup {Single(TRUE, 0, 0, sim) : sim \in {NoSim, SIM_THRESHOLD - 1, SIM_THRESHOLD}}

NextIdentity ==
  \/ AdvanceFrame
  \/ \E res \in IdentityResults : FaceCycle(res)
  \/ \E t \in pending : AddViolationResume(t, t.wLive, t.sLive)

SpecIdentity == Init /\ [][NextIdentity]_vars

\* The audio monitor, from its calibration on; the recognizer hears no speech
NextAudio ==
  \/ AdvanceRecording
  \/ \E avg \in AudioLevels : \E recOk \in BOOLEAN :
       SpikesLeft(avg, MaxCalSpikes) /\ AudioSample(avg, recOk)
  \/ \E r \in recorders : \E blobOk \in BOOLEAN : RecorderStop(r, blobOk)
  \/ \E r \in readers : ReaderLoaded(r)
  \/ \E t \in pending : AddViolationResume(t, t.wLive, t.sLive)

SpecAudio == Init /\ [][NextAudio]_vars

\* The calibration alone, with windows on both sides of the percentile's
\* index, and the first noise flag after it
NextCalibration ==
  \/ \E avg \in AudioLevels : AudioSample(avg, TRUE)
  \/ \E t \in pending : AddViolationResume(t, t.wLive, t.sLive)

SpecCalibration == Init /\ [][NextCalibration]_vars

\* Every writer of the violation list: the store's continuation, the patch of
\* the away-duration and the attach of a clip.  The room is quiet until the
\* calibration ends and loud until the first noise flag, and the student
\* stays on the tab while the calibration runs.
NextList ==
  \/ RecordingElapses
  \/ AudioSample(IF calibrated /\ noiseLog = <<>> THEN LoudLevel ELSE QuietLevel, TRUE)
  \/ \E t \in pending : AddViolationResume(t, t.wLive, t.sLive)
  \/ \E r \in recorders : RecorderStop(r, TRUE)
  \/ \E r \in readers : ReaderLoaded(r)
  \/ calibrated /\ OnVisibilityHidden
  \/ OnVisibilityShown

SpecList == Init /\ [][NextList]_vars

\* The recordings and the speech recognizer, for each of the recognizer's
\* three conditions.  The room is quiet until the calibration ends and loud
\* afterwards, and nobody speaks in the quiet room; a stopped recording is
\* read, and a snapshot settles, before the next recording ends.
NextSpeech ==
  \/ pending = {} /\ RecordingElapses
  \/ AudioSample(IF calibrated THEN LoudLevel ELSE QuietLevel, TRUE)
  \/ \E r \in recorders : \E blobOk \in BOOLEAN : RecorderStop(r, blobOk)
  \/ \E r \in readers : ReaderLoaded(r)
  \/ \E t \in pending : AddViolationResume(t, t.wLive, t.sLive)
  \/ calibrated /\ SpeechStart
  \/ SpeechEnd

SpecSpeech == InitSpeech /\ [][NextSpeech]_vars

\* A noise-triggered recording and the finalizer: the room is quiet until the
\* calibration ends and loud afterwards, as long as the microphone is open
NextClip ==
  \/ AdvanceRecording
  \/ AudioSample(IF calibrated /\ micLive THEN LoudLevel ELSE QuietLevel, TRUE)
  \/ \E t \in pending : AddViolationResume(t, t.wLive, t.sLive)
  \/ \E r \in recorders : RecorderStop(r, TRUE)
  \/ \E r \in recorders : \E blobOk \in BOOLEAN : RecorderStopEarly(r, blobOk)
  \/ \E r \in readers : ReaderLoaded(r)
  \/ RequestSubmit
  \/ ConfirmSubmit

SpecClip == Init /\ [][NextClip]_vars

\* The session with or without monitoring: the keyboard handler, the audio
\* monitor, the clock and the finalizer.  The room is quiet until the
\* calibration ends and loud until the first noise flag, and the recording
\* yields a clip.
NextMonitoring ==
  \/ AdvanceRecording
  \/ RenderCommit
  \/ \E t \in pending : AddViolationResume(t, t.wLive, t.sLive)
  \/ \E isBlocked \in BOOLEAN : KeyDown(isBlocked)
  \/ AudioSample(IF calibrated /\ noiseLog = <<>> THEN LoudLevel ELSE QuietLevel, TRUE)
  \/ \E r \in recorders : RecorderStop(r, TRUE)
  \/ \E r \in readers : ReaderLoaded(r)
  \/ TimerTick
  \/ RequestSubmit
  \/ CancelSubmit
  \/ ConfirmSubmit

SpecMonitoring == InitAny /\ [][NextMonitoring]_vars

\* The whole program
Next ==
  \/ AdvanceClock
  \/ AdvanceFrame
  \/ AdvanceRecording
  \/ RenderCommit
  \/ \E t \in pending : \E wOk, sOk \in BOOLEAN : AddViolationResume(t, wOk, sOk)
  \/ \E isBlocked \in BOOLEAN : KeyDown(isBlocked)
  \/ OnVisibilityHidden
  \/ OnVisibilityShown
  \/ OnBlur
  \/ PeriodicTick
  \/ \E p \in snapshots : \E wOk, sOk \in BOOLEAN : PeriodicResume(p, wOk, sOk)
  \/ \E res \in GazeResults \cup IdentityResults : FaceCycle(res)
  \/ DetectStart
  \/ \E ok \in BOOLEAN : \E res \in LandmarkerResults : LoadSettles(ok, res)
  \/ \E res \in LandmarkerResults : WaitEnds(res)
  \/ \E ok \in BOOLEAN : OtherLoadSettles(ok)
  \/ \E avg \in AudioLevels : \E recOk \in BOOLEAN :
       SpikesLeft(avg, MaxCalSpikes) /\ AudioSample(avg, recOk)
  \/ \E r \in recorders : \E blobOk \in BOOLEAN : RecorderStop(r, blobOk)
  \/ \E r \in recorders : \E blobOk \in BOOLEAN : RecorderStopEarly(r, blobOk)
  \/ \E r \in readers : ReaderLoaded(r)
  \/ RecordingElapses
  \/ SpeechStart
  \/ SpeechEnd
  \/ ExitFullscreen
  \/ EnterFullscreen
  \/ OnFs
  \/ \E f \in fsPending : \E sOk \in BOOLEAN : OnFsResume(f, sOk)
  \/ \E scr \in Screens : CheckMonitors(scr)
  \/ \E i \in 1..Len(screens) : ScreenTrackEnded(i)
  \/ CountdownTick
  \/ ReshareClick
  \/ \E surface \in Surfaces : ReshareResolve(surface)
  \/ ReshareFail
  \/ TimerTick
  \/ RequestSubmit
  \/ CancelSubmit
  \/ ConfirmSubmit

Spec == InitAny /\ [][Next]_vars

\* The store with its snapshots: each snapshot of a source that is live at
\* the call yields an image or fails; the sources go away when the session
\* clock finalizes
ResumeAny == \E t \in pending : \E wOk, sOk \in BOOLEAN : AddViolationResume(t, wOk, sOk)

NextCapture ==
  \/ ResumeAny
  \/ OnVisibilityHidden
  \/ OnBlur
  \/ \E isBlocked \in BOOLEAN : KeyDown(isBlocked)
  \/ TimerTick

SpecCapture == Init /\ [][NextCapture]_vars

\* The fullscreen monitor, with the store and the session clock (whose
\* finalize stops the screen's tracks)
NextFullscreen ==
  \/ \E t \in pending : AddViolationResume(t, t.wLive, t.sLive)
  \/ ExitFullscreen
  \/ EnterFullscreen
  \/ OnFs
  \/ \E f \in fsPending : \E sOk \in BOOLEAN : OnFsResume(f, sOk)
  \/ TimerTick

SpecFullscreen == Init /\ [][NextFullscreen]_vars

\* The display poll, with the store and the wall clock
NextPoll ==
  \/ AdvanceClock
  \/ \E t \in pending : AddViolationResume(t, t.wLive, t.sLive)
  \/ \E scr \in Screens : CheckMonitors(scr)

SpecPoll == Init /\ [][NextPoll]_vars

\* the promises of line 94 settle: snapStream catches whatever it throws
SpecCaptureFair == SpecCapture /\ WF_vars(ResumeAny)

\* setInterval keeps calling the countdown callback while it is scheduled
SpecSessionFair == SpecSession /\ WF_vars(CountdownTick)

SpecReshareFair == SpecReshare /\ WF_vars(CountdownTick)

\* setInterval keeps calling the session clock's callback while it is scheduled
SpecClockFair == SpecSession /\ WF_vars(TimerTick)

\* ------------------------------------------------------------------ claims
FinishCallsFrom(os) ==
  LET RECURSIVE Sum(_)
      Sum(S) == IF S = {} THEN 0
                ELSE LET o == CHOOSE x \in S : TRUE IN finishCalls[o] + Sum(S \ {o})
  IN Sum(os)

ScreenOrigins == {"countdown", "second-stop"}

\* C1: finalize is idempotent.  However many finalize requests arrive, from
\* whichever triggers, at most one payload is delivered, by one callback;
\* stopAll has run exactly as often as a payload was delivered; the session
\* is submitted exactly when a finalize request has been made; and once it is
\* submitted the flag stays set and a further request delivers nothing,
\* releases nothing and changes no source.
C1_State ==
  /\ Len(delivered) <= 1
  /\ stopAllCalls = Len(delivered)
  /\ submittedRef <=> Len(delivered) = 1
  /\ submittedRef <=> FinishCallsFrom(Origins) >= 1
  /\ \A i \in 1..Len(delivered) : delivered[i].cb \in {"onTimeUp", "onManualSubmit"}

C1_Step ==
  submittedRef =>
    /\ submittedRef'
    /\ delivered' = delivered
    /\ stopAllCalls' = stopAllCalls
    /\ webcamLive' = webcamLive /\ micLive' = micLive

C1_FinalizeIdempotent == [](C1_State) /\ [][C1_Step]_vars

\* C1 witness: two different triggers have requested finalize, one payload
C1_Witness ==
  /\ finishCalls["time-up"] >= 1
  /\ finishCalls["manual"] >= 1
  /\ Len(delivered) = 1

PayloadIds(p) == {p.violations[i].id : i \in 1..Len(p.violations)}

\* C2: the delivered payload holds every violation that addViolation had
\* accepted when finalize was invoked, a record whose snapshot was still
\* pending and the record of the stop that triggers finalize included.
C2_PayloadComplete ==
  \A i \in 1..Len(delivered) : acceptedAtFinish \subseteq PayloadIds(delivered[i])

CooledKinds == ViolationType \ {"TAB_SWITCH", "IDENTITY_MISMATCH"}

\* C3: two records of the same kind (TAB_SWITCH and the bypass kind apart)
\* never have timestamps closer than the cooldown.
C3_CooldownSpacing ==
  \A i, j \in 1..Len(violations) :
    (i < j /\ violations[i].type = violations[j].type
           /\ violations[i].type \in CooledKinds)
      => violations[j].timestamp - violations[i].timestamp >= COOLDOWN_MS

\* C4: an addViolation call made while the kind's cooldown is active (not
\* TAB_SWITCH, no bypass flag) appends nothing, starts no capture, logs no
\* capture, leaves the cooldown table as it was and returns no identifier.
C4_Step ==
  (/\ lastCall'.n # lastCall.n
   /\ ~lastCall'.skipCooldown
   /\ lastCall'.type # "TAB_SWITCH"
   /\ cooldownRef[lastCall'.type] + COOLDOWN_MS > now)
  => /\ violations' = violations
     /\ captureLogs' = captureLogs
     /\ pending' = pending
     /\ cooldownRef' = cooldownRef
     /\ nextId' = nextId
     /\ lastCall'.id = 0

C4_SuppressedIsNoOp == [][C4_Step]_vars

\* C4 witness: the last call came while its kind's cooldown was running
C4_Witness ==
  /\ lastCall.n >= 2
  /\ lastCall.type = "WINDOW_BLUR"
  /\ lastCall.stamp + COOLDOWN_MS > lastCall.at
  /\ lastCall.id = 0

RecordOf(id) ==
  {i \in 1..Len(violations) : violations[i].id = id}

Patched == {i \in 1..Len(violations) : violations[i].awayMs # NoMs}

\* C5: once a hide/show cycle is over (the restore has been handled and the
\* hide's snapshot has settled), the TAB_SWITCH record of that cycle carries
\* a non-negative away-duration, and as many records are patched as there
\* were cycles.
C5_CyclePatched ==
  (pending = {} /\ ~hidden) =>
    /\ \A k \in 1..Len(showLog) :
         \A i \in RecordOf(hideCalls[k]) : violations[i].awayMs >= 0
    /\ Cardinality(Patched) = Len(showLog)

Unpatched == {i \in 1..Len(violations) :
                violations[i].type = "TAB_SWITCH" /\ violations[i].awayMs = NoMs}

MaxOf(S) == CHOOSE i \in S : \A j \in S : j <= i

\* C6: a visibility restore patches the most recent TAB_SWITCH record that is
\* not yet patched (and no other record), and an away-duration, once written,
\* is never written again.
C6_Step ==
  Len(showLog') = Len(showLog) + 1 =>
    LET id == showLog'[Len(showLog')]
    IN /\ id = IF Unpatched = {} THEN 0 ELSE violations[MaxOf(Unpatched)].id
       /\ \A i \in 1..Len(violations) :
            violations[i].awayMs # NoMs => violations'[i] = violations[i]

C6_PatchMostRecentUnpatched == [][C6_Step]_vars

\* C7: the first stop enters the countdown state; an accepted re-share
\* cancels the countdown, makes the new stream the tracked screen source with
\* the stop listener armed on its live track and restores screen-share
\* health; a countdown cancelled before it expired never ticks again and
\* makes no finalize call.
C7_State ==
  /\ Len(screens) >= 2 => ~screenCountdownRef
  /\ (Len(screens) >= 2 /\ countdownTicks < COUNTDOWN_START)
       => finishCalls["countdown"] = 0

C7_Step ==
  /\ (screenStopCountRef = 0 /\ screenStopCountRef' = 1)
       => /\ screenCountdownRef'
          /\ screenShareCountdown' = COUNTDOWN_START
          /\ remaining' = COUNTDOWN_START
  /\ Len(screens') = Len(screens) + 1
       => /\ ~screenCountdownRef'
          /\ screenShareCountdown' = NoCount
          /\ screenRef' = Len(screens')
          /\ screens'[screenRef'] = [live |-> TRUE, listener |-> "reshare"]
          /\ screenOk'
  /\ Len(screens) >= 2 => countdownTicks' = countdownTicks

C7_ReshareCancelsCountdown == [](C7_State) /\ [][C7_Step]_vars

\* C7 witness: a replacement was accepted while the countdown was running
C7_Witness ==
  /\ Len(screens) = 2
  /\ screenRef = 2
  /\ screens[2].live
  /\ countdownTicks \in 1..(COUNTDOWN_START - 1)
  /\ ~submittedRef

\* C8: with no replacement accepted, the countdown makes its finalize call
\* when it has ticked 5 times and the tracked source has no live track, and
\* that is the only finalize call of the screen-share monitor; while the
\* countdown is scheduled, fair ticks lead to the submitted state (unless a
\* replacement is accepted first).
C8_State ==
  /\ finishCalls["countdown"] <= 1
  /\ finishCalls["countdown"] = 1 => (countdownTicks = COUNTDOWN_START /\ submittedRef)
  /\ countdownTicks <= COUNTDOWN_START
  /\ countdownTicks = COUNTDOWN_START => finishCalls["countdown"] = 1
  /\ Len(screens) = 1 => finishCalls["second-stop"] = 0

C8_Live ==
  (screenCountdownRef /\ Len(screens) = 1) ~> (submittedRef \/ Len(screens) >= 2)

C8_CountdownExpiryFinalizes == [](C8_State) /\ C8_Live

\* C8 witness: the countdown expired with no replacement and finalized
C8_Witness ==
  /\ Len(screens) = 1
  /\ countdownTicks = COUNTDOWN_START
  /\ FinishCallsFrom(Origins) = 1
  /\ finishCalls["countdown"] = 1
  /\ Len(delivered) = 1

\* C9: after two stops (the original track, then the replacement) the
\* screen-share monitor has made exactly one finalize call, and no countdown
\* is scheduled.
C9_TwoStopsOneFinalize ==
  screenStopCountRef >= 2 =>
    /\ FinishCallsFrom(ScreenOrigins) = 1
    /\ ~screenCountdownRef

TerminalDetails == {DETAIL_SECOND, DETAIL_AGAIN}

\* C10: every second stop puts a SCREEN_SHARE_STOPPED report with the
\* terminal detail into the store.
C10_Step ==
  (screenStopCountRef' >= 2 /\ screenStopCountRef' # screenStopCountRef)
    => \E t \in pending' \ pending :
         t.type = "SCREEN_SHARE_STOPPED" /\ t.detail \in TerminalDetails

C10_SecondStopRecorded == [][C10_Step]_vars

\* C11: once the session is submitted, every late callback is ignored: no
\* violation and no capture-log entry is appended and no record is patched.
C11_Step ==
  submittedRef => (violations' = violations /\ captureLogs' = captureLogs)

C11_LateCallbacksIgnored == [][C11_Step]_vars

\* C12: after the first finalize call every held source is released and no
\* session-clock tick or reshare-countdown tick is scheduled or re-armed.
C12_ReleasedAndCancelled ==
  submittedRef =>
    /\ ~timerRef
    /\ ~screenCountdownRef
    /\ ~webcamLive /\ ~micLive /\ ~ScreenLive

\* C13: the remaining time stays within 0..Duration and changes only by a
\* tick that takes exactly 1 off; as long as the session is active it equals
\* the duration less the ticks so far; when it is zero finalize has been
\* invoked for time-up, so the session is submitted after at most Duration
\* ticks; and with fair ticks every session is eventually submitted.
C13_State ==
  /\ timeLeft \in 0..Duration
  /\ ~submittedRef => (timerRef /\ timeLeft = Duration - timerTicks)
  /\ timeLeft = 0 => (submittedRef /\ finishCalls["time-up"] >= 1)
  /\ timerTicks >= Duration => submittedRef

C13_Step == timeLeft' # timeLeft => timeLeft' = timeLeft - 1

C13_Live == <>submittedRef

C13_SessionClock == [](C13_State) /\ [][C13_Step]_vars /\ C13_Live

\* C13 witness: the clock ran down and finalized for time-up
C13_Witness ==
  /\ timeLeft = 0
  /\ timerTicks = Duration
  /\ Len(delivered) = 1
  /\ delivered[1].cb = "onTimeUp"

\* C20: a submit request on its own finalizes nothing; finalize is invoked
\* for a manual submit only by a confirm that follows a request, through the
\* guard of the submitted flag; a cancel closes the dialog and leaves the
\* session, its clock and its remaining time as they were.
C20_Step ==
  /\ (~pendingSubmit /\ pendingSubmit')
       => /\ UNCHANGED finishVars
          /\ timeLeft' = timeLeft
  /\ finishCalls'["manual"] # finishCalls["manual"]
       => /\ pendingSubmit /\ ~pendingSubmit'
          /\ submittedRef'
          /\ IF submittedRef THEN delivered' = delivered
             ELSE /\ Len(delivered') = 1
                  /\ delivered'[1].cb = "onManualSubmit"
  /\ (pendingSubmit /\ ~pendingSubmit' /\ finishCalls' = finishCalls)
       => /\ submittedRef' = submittedRef
          /\ timerRef' = timerRef
          /\ timeLeft' = timeLeft
          /\ delivered' = delivered

C20_State == ~submittedRef => timerRef

C20_ConfirmedSubmit == [](C20_State) /\ [][C20_Step]_vars

\* C20 witness: a confirmed request delivered the manual-submit payload
C20_Witness ==
  /\ finishCalls["manual"] = 1
  /\ finishCalls["time-up"] = 0
  /\ Len(delivered) = 1
  /\ delivered[1].cb = "onManualSubmit"
  /\ timerTicks = 1

Cycles == 1..Len(faceLog)

Reports(kind) ==
  {t.id : t \in {u \in pending : u.type = kind}}
    \cup {violations[i].id : i \in {j \in 1..Len(violations) : violations[j].type = kind}}

FiringCycles(kind) == {k \in Cycles : kind \in faceLog[k].kinds}

\* a cycle in which one face is seen with its head turned beyond a threshold
AwayCycle(e) ==
  /\ e.res.count = 1
  /\ e.res.matrix
  /\ (Abs(e.res.yaw) > GAZE_YAW_THRESHOLD \/ Abs(e.res.pitch) > GAZE_PITCH_THRESHOLD)

\* a cycle that interrupts a deviation: no face, several faces, or one face
\* looking back
Interrupts(e) ==
  \/ e.res.count # 1
  \/ e.res.matrix /\ ~AwayCycle(e)

\* C14: GAZE_AWAY is reported only by a cycle that sees the head turned away
\* and closes a run of cycles, none of which interrupts the deviation, that
\* began with a look-away at least 1500 ms earlier; a cycle that interrupts
\* the deviation clears the gaze timer; and every GAZE_AWAY report in the
\* store comes from such a cycle.
C14_State ==
  /\ \A k \in FiringCycles("GAZE_AWAY") :
       /\ AwayCycle(faceLog[k])
       /\ \E j \in 1..k :
            /\ AwayCycle(faceLog[j])
            /\ faceLog[k].at - faceLog[j].at >= GAZE_AWAY_MS
            /\ \A i \in j..k : ~Interrupts(faceLog[i])
  /\ Cardinality(Reports("GAZE_AWAY")) <= Cardinality(FiringCycles("GAZE_AWAY"))

C14_Step ==
  (Len(faceLog') = Len(faceLog) + 1 /\ Interrupts(faceLog'[Len(faceLog')]))
    => gazeAwayStartRef' = 0

C14_GazeAwayAfterContinuousDeviation == [](C14_State) /\ [][C14_Step]_vars

\* C14 witness: a deviation interrupted after one cycle reported nothing, the
\* next one lasted 1500 ms and was reported by the cycle that completed it
C14_Witness ==
  /\ Len(faceLog) = 5
  /\ AwayCycle(faceLog[1])
  /\ Interrupts(faceLog[2])
  /\ FiringCycles("GAZE_AWAY") = {5}
  /\ Cardinality(Reports("GAZE_AWAY")) = 1

\* a cycle in which one face is seen whose similarity is below the threshold
BelowCycle(e) ==
  /\ e.res.count = 1
  /\ e.res.sim # NoSim
  /\ e.res.sim < SIM_THRESHOLD

\* C15: IDENTITY_MISMATCH is reported only by the third of three consecutive
\* cycles that each see one face with a similarity below 0.72, none of the
\* two before it having reported it; a cycle that sees a passing sample, and
\* a cycle that reports, leave the counter at 0; and every
\* IDENTITY_MISMATCH report in the store comes from such a cycle.
C15_State ==
  /\ \A k \in FiringCycles("IDENTITY_MISMATCH") :
       /\ k >= 3
       /\ \A i \in (k - 2)..k : BelowCycle(faceLog[i])
       /\ \A i \in (k - 2)..(k - 1) : "IDENTITY_MISMATCH" \notin faceLog[i].kinds
  /\ Cardinality(Reports("IDENTITY_MISMATCH"))
       = Cardinality(FiringCycles("IDENTITY_MISMATCH"))

C15_Step ==
  Len(faceLog') = Len(faceLog) + 1 =>
    LET e == faceLog'[Len(faceLog')]
    IN (~BelowCycle(e) \/ "IDENTITY_MISMATCH" \in e.kinds) => mismatchCount' = 0

C15_IdentityMismatchAfterThree == [](C15_State) /\ [][C15_Step]_vars

\* C15 witness: the third below-threshold sample in a row was reported, the
\* two that followed it were not
C15_Witness ==
  /\ Len(faceLog) = 5
  /\ \A k \in Cycles : BelowCycle(faceLog[k])
  /\ FiringCycles("IDENTITY_MISMATCH") = {3}
  /\ Cardinality(Reports("IDENTITY_MISMATCH")) = 1

\* C16: NO_FACE is reported by exactly those cycles that are the third of
\* three consecutive cycles seeing no face, none of the two before it having
\* reported it (so after a report three further misses are needed); the
\* reporting cycle leaves the miss counter at 0.
C16_State ==
  \A k \in Cycles :
    "NO_FACE" \in faceLog[k].kinds <=>
      /\ k >= 3
      /\ \A i \in (k - 2)..k : faceLog[i].res.count = 0
      /\ \A i \in (k - 2)..(k - 1) : "NO_FACE" \notin faceLog[i].kinds

C16_Step ==
  (Len(faceLog') = Len(faceLog) + 1 /\ "NO_FACE" \in faceLog'[Len(faceLog')].kinds)
    => missCount' = 0

C16_NoFaceHysteresis == [](C16_State) /\ [][C16_Step]_vars

\* C16 witness: a face in cycles 1-2, none in cycles 3-5, one NO_FACE, at 5
C16_Witness ==
  /\ Len(faceLog) = 5
  /\ faceLog[1].res.count = 1 /\ faceLog[2].res.count = 1
  /\ \A k \in 3..5 : faceLog[k].res.count = 0
  /\ FiringCycles("NO_FACE") = {5}
  /\ Cardinality(Reports("NO_FACE")) = 1


\* the NOISE_DETECTED records, reported or waiting for their snapshot
NoiseTasks(tasks) == {t \in tasks : t.type = "NOISE_DETECTED"}

NoiseStamps ==
  {t.ts : t \in NoiseTasks(pending)}
    \cup {violations[i].timestamp :
            i \in {j \in 1..Len(violations) : violations[j].type = "NOISE_DETECTED"}}

\* C17: after the calibration, a noise flag is raised only by the audio sample
\* that takes the voice-frame counter to 5 or beyond while no recording is in
\* progress and the last flag is more than 12 000 ms old; that sample creates
\* exactly one NOISE_DETECTED record, stamped with the time of the sample, and
\* starts exactly one recording for it when a recorder can be constructed;
\* such a sample never leaves the counter at 5 or more without a recording in
\* progress, and no other step creates a record or starts a recording.
C17_Step ==
  LET created == NoiseTasks(pending') \ NoiseTasks(pending)
      started == recorders' \ recorders
      limit   == calibrated /\ ~saving /\ voiceFrames >= 4 /\ voiceFrames' = 0
      fresh   == lastNoiseFlagMs = NoMs
                   \/ PerfNow - lastNoiseFlagMs > NOISE_COOLDOWN_MS
  IN /\ (voiceFrames' > voiceFrames /\ voiceFrames' >= 5) => saving
     /\ (limit /\ fresh) =>
          /\ Cardinality(created) = 1
          /\ \A t \in created : t.ts = now /\ t.id = nextId
          /\ lastNoiseFlagMs' = PerfNow
          /\ Len(noiseLog') = Len(noiseLog) + 1
          /\ IF noiseLog'[Len(noiseLog')].recorderAvailable
             THEN /\ Cardinality(started) = 1
                  /\ \A r \in started : r.id = nextId /\ r.startedAt = PerfNow
                  /\ saving'
             ELSE started = {} /\ ~saving'
     /\ ~(limit /\ fresh) => created = {} /\ started = {}

C17_NoiseFlagAtFive == [][C17_Step]_vars

\* a run of five samples raised one flag, whose recording is in progress
C17_Witness ==
  /\ Len(noiseLog) = 1
  /\ noiseLog[1].flagged /\ noiseLog[1].recorderAvailable
  /\ saving
  /\ Cardinality(recorders) = 1
  /\ Cardinality(NoiseTasks(pending)) + Cardinality(Reports("NOISE_DETECTED")) = 1

C18_State ==
  /\ \A a, b \in NoiseTasks(pending) :
       a.id # b.id => (a.ts - b.ts >= NOISE_COOLDOWN_MS \/ b.ts - a.ts >= NOISE_COOLDOWN_MS)
  /\ \A i, j \in 1..Len(violations) :
       (i # j /\ violations[i].type = "NOISE_DETECTED"
              /\ violations[j].type = "NOISE_DETECTED") =>
         \/ violations[i].timestamp - violations[j].timestamp >= NOISE_COOLDOWN_MS
         \/ violations[j].timestamp - violations[i].timestamp >= NOISE_COOLDOWN_MS
  /\ \A t \in NoiseTasks(pending) : \A i \in 1..Len(violations) :
       violations[i].type = "NOISE_DETECTED" =>
         \/ violations[i].timestamp - t.ts >= NOISE_COOLDOWN_MS
         \/ t.ts - violations[i].timestamp >= NOISE_COOLDOWN_MS

C18_Step ==
  LET within == lastNoiseFlagMs # NoMs
                  /\ PerfNow - lastNoiseFlagMs < NOISE_COOLDOWN_MS
  IN within => /\ NoiseTasks(pending') \subseteq NoiseTasks(pending)
               /\ recorders' \subseteq recorders
               /\ lastNoiseFlagMs' = lastNoiseFlagMs

\* C18: any two NOISE_DETECTED records are stamped at least 12 000 ms apart,
\* and within 12 000 ms of a noise flag no step creates a NOISE_DETECTED
\* record, starts a recording or moves the flag.
C18_NoiseCooldown == [](C18_State) /\ [][C18_Step]_vars

\* a second run of five samples came within 12 000 ms of a flag and was dropped
C18_Witness ==
  \E k, j \in 1..Len(noiseLog) :
    /\ k < j
    /\ noiseLog[k].flagged /\ ~noiseLog[j].flagged
    /\ noiseLog[j].at - noiseLog[k].at < NOISE_COOLDOWN_MS
    /\ Cardinality(NoiseTasks(pending)) + Cardinality(Reports("NOISE_DETECTED")) = 1
    /\ recorders = {}


C19_State ==
  ~proctorEnabled =>
    /\ violations = <<>> /\ violationsRef = <<>> /\ pending = {}
    /\ captureLogs = <<>> /\ captureLogsRef = <<>> /\ snapshots = {}
    /\ audioClips = <<>> /\ audioClipsRef = <<>>
    /\ recorders = {} /\ readers = {}
    /\ Len(delivered) <= 1
    /\ submittedRef <=> Len(delivered) = 1
    /\ \A k \in 1..Len(delivered) :
         /\ delivered[k].cb \in {"onTimeUp", "onManualSubmit"}
         /\ delivered[k].violations = <<>>
         /\ delivered[k].captureLogs = <<>>
         /\ delivered[k].audioClips = <<>>

C19_Step ==
  ~proctorEnabled =>
    /\ timerTicks' # timerTicks =>
         IF timeLeft > 1 THEN timeLeft' = timeLeft - 1
         ELSE timeLeft' = 0 /\ submittedRef' /\ Len(delivered') = 1
    /\ (pendingSubmit /\ ~pendingSubmit' /\ finishCalls' # finishCalls) =>
         submittedRef' /\ Len(delivered') = 1
    /\ timeLeft' <= timeLeft

\* C19: with monitoring disabled the violation list, the capture log and the
\* audio-clip list stay empty (as do their mirrors and everything on its way
\* into them) whatever keys are pressed and whatever the microphone hears;
\* each tick of the session clock takes one second off the remaining time or,
\* at the last second, finalizes; a confirmed manual submit finalizes; and
\* finalization delivers one payload, with empty lists, and only one.
C19_MonitoringDisabled == [](C19_State) /\ [][C19_Step]_vars

\* a disabled session in which a key was pressed, the clock ticked and the
\* payload of the time-up was delivered
C19_Witness ==
  /\ ~proctorEnabled
  /\ keysSeen >= 1
  /\ timerTicks >= 2
  /\ Len(delivered) = 1
  /\ delivered[1].cb = "onTimeUp"
  /\ timeLeft = 0


RecordIds == {violations[i].id : i \in 1..Len(violations)}

C21_State ==
  /\ \A i, j \in 1..Len(violations) : i # j => violations[i].id # violations[j].id
  /\ \A t \in pending : t.id \notin RecordIds
  /\ RecordIds \cup {t.id : t \in pending} = 1..(nextId - 1)

C21_Step ==
  /\ (lastCall'.n # lastCall.n /\ lastCall'.id # 0) =>
       /\ Cardinality(pending' \ pending) = 1
       /\ \A t \in pending' \ pending : t.id = lastCall'.id
  /\ Len(violations') >= Len(violations)
  /\ Len(violations') > Len(violations) =>
       /\ Len(violations') = Len(violations) + 1
       /\ LET v == violations'[Len(violations')]
              w == IF v.webcamShot # NoShot THEN 1 ELSE 0
              c == IF v.screenShot # NoShot THEN 1 ELSE 0
          IN /\ \E t \in pending :
                  /\ t.id = v.id /\ t.type = v.type
                  /\ pending' = pending \ {t}
                  /\ v.webcamShot # NoShot => t.wLive
                  /\ v.screenShot # NoShot => t.sLive
             /\ Len(captureLogs') = Len(captureLogs) + w + c
             /\ \A k \in 1..Len(captureLogs) : captureLogs'[k] = captureLogs[k]
             /\ w = 1 => /\ captureLogs'[Len(captureLogs) + 1].kind = "webcam"
                         /\ captureLogs'[Len(captureLogs) + 1].dataUrl = v.webcamShot
             /\ c = 1 => /\ captureLogs'[Len(captureLogs') ].kind = "screen"
                         /\ captureLogs'[Len(captureLogs')].dataUrl = v.screenShot
  /\ Len(violations') = Len(violations) => captureLogs' = captureLogs

\* every report is recorded in the end
C21_Live == <>[](pending = {})

\* C21: a report that passes the cooldown test is suspended once and its
\* continuation appends exactly one record, whatever its snapshots yield: no
\* report is recorded twice or lost, a snapshot that failed leaves its field
\* absent and adds no capture-log entry, one that succeeded adds exactly one.
C21_CaptureFailureStillRecords == [](C21_State) /\ [][C21_Step]_vars /\ C21_Live

\* a tab switch whose webcam snapshot failed and whose screen snapshot
\* succeeded is recorded, with one capture-log entry
C21_Witness ==
  \E i \in 1..Len(violations) :
    /\ violations[i].type = "TAB_SWITCH"
    /\ violations[i].webcamShot = NoShot
    /\ violations[i].screenShot # NoShot
    /\ Len(captureLogs) = 1
    /\ pending = {}


C22_State ==
  /\ cooldownRef["IDENTITY_MISMATCH"] = 0
  /\ \A t \in pending : t.type = "IDENTITY_MISMATCH" => t.detail = DETAIL_SIM

C22_Step ==
  LET created == {t \in pending' \ pending : t.type = "IDENTITY_MISMATCH"}
      emits == /\ Len(faceLog') = Len(faceLog) + 1
               /\ "IDENTITY_MISMATCH" \in faceLog'[Len(faceLog')].kinds
  IN /\ emits => /\ Cardinality(created) = 1
                 /\ \A t \in created : t.id = nextId
                 /\ lastCall'.skipCooldown /\ lastCall'.id = nextId
                 /\ cooldownRef' = cooldownRef
     /\ ~emits => created = {}

\* C22: every cycle that emits IDENTITY_MISMATCH leaves one new report in the
\* store, whatever the age of the previous one, and leaves the cooldown table
\* as it was; the table's entry of the kind is never stamped.
C22_IdentityNeverCooled == [](C22_State) /\ [][C22_Step]_vars

\* two identity failures, 2250 ms apart, are both in the store
C22_Witness ==
  /\ Cardinality(FiringCycles("IDENTITY_MISMATCH")) = 2
  /\ Cardinality(Reports("IDENTITY_MISMATCH")) = 2
  /\ \A j, k \in FiringCycles("IDENTITY_MISMATCH") :
       faceLog[k].at - faceLog[j].at < COOLDOWN_MS


TabReports == {t \in pending : t.type = "TAB_SWITCH"}

TabRecords == {i \in 1..Len(violations) : violations[i].type = "TAB_SWITCH"}

C23_State ==
  /\ \A i, j \in 1..Len(hideCalls) : i # j => hideCalls[i] # hideCalls[j]
  /\ {hideCalls[i] : i \in 1..Len(hideCalls)}
       = {t.id : t \in TabReports} \cup {violations[i].id : i \in TabRecords}
  /\ Cardinality(TabReports) + Cardinality(TabRecords) = Len(hideCalls)
  /\ \A t \in TabReports : t.captureScreen
  /\ \A i \in TabRecords : violations[i].screenShot # NoShot => 
       \E k \in 1..Len(captureLogs) :
         /\ captureLogs[k].kind = "screen"
         /\ captureLogs[k].dataUrl = violations[i].screenShot

C23_Step ==
  (hidden' /\ ~hidden) =>
    /\ Len(hideCalls') = Len(hideCalls) + 1
    /\ \E t \in pending' \ pending :
         /\ t.type = "TAB_SWITCH" /\ t.captureScreen
         /\ t.id = hideCalls'[Len(hideCalls')]
         /\ t.sLive = ScreenLive
    /\ cooldownRef'["TAB_SWITCH"] = now

\* C23: every time the tab becomes hidden one TAB_SWITCH report of its own
\* enters the store, asking for a screen capture, whatever the age of the
\* previous one; each is recorded once, and a screen capture it took is in
\* the capture log.
C23_TabSwitchExempt == [](C23_State) /\ [][C23_Step]_vars

\* two hides 5000 ms apart, both recorded
C23_Witness ==
  /\ Cardinality(TabRecords) = 2
  /\ \A i, j \in TabRecords :
       violations[i].timestamp - violations[j].timestamp < COOLDOWN_MS
  /\ \A i \in TabRecords : violations[i].screenShot # NoShot

Rejected == lastRejected # NoReshare

\* a re-share attempt settles without a stream being accepted
SettlesWithoutStream ==
  resharePending /\ ~resharePending' /\ Len(screens') = Len(screens)

C24_State ==
  Rejected =>
    /\ PartialSurface(lastRejected.surface)
    /\ lastRejected.stopped
    /\ ~screenOk

C24_Step ==
  /\ SettlesWithoutStream =>
       /\ screens' = screens
       /\ screenRef' = screenRef
       /\ screenOk' = screenOk
       /\ screenCountdownRef' = screenCountdownRef
       /\ remaining' = remaining
       /\ screenShareCountdown' = screenShareCountdown
       /\ submittedRef' = submittedRef
  /\ (Rejected /\ ~submittedRef /\ screenShareCountdown' = NoCount /\ ~screenOk')
       => (submittedRef' /\ finishCalls'["countdown"] = finishCalls["countdown"] + 1)

C24_Live == (Rejected /\ screenCountdownRef) ~> (submittedRef \/ screenOk)

C25_State ==
  \A type \in CooledKinds :
    /\ Cardinality(Reports(type)) <= 1 + ((now - StartMs) \div COOLDOWN_MS)
    /\ Reports(type) # {} => cooldownRef[type] >= StartMs
    /\ cooldownRef[type] <= now

C25_Step ==
  LET called == lastCall'.n = lastCall.n + 1
      type == lastCall'.type
      cooled == /\ type \in CooledKinds
                /\ ~lastCall'.skipCooldown
                /\ cooldownRef[type] + COOLDOWN_MS > now
  IN /\ (called /\ cooled) =>
          /\ lastCall'.id = 0
          /\ pending' = pending
          /\ nextId' = nextId
          /\ cooldownRef' = cooldownRef
          /\ violations' = violations
     /\ (called /\ type \in CooledKinds /\ ~cooled) =>
          /\ lastCall'.id = nextId
          /\ cooldownRef'[type] = now
          /\ Cardinality(pending' \ pending) = 1
     /\ ~called => cooldownRef' = cooldownRef

\* C25: the cooldown test and the stamp are made in one step, before the
\* report is suspended at its snapshots: a report of a cooled kind made less
\* than 10 000 ms after an accepted one of the same kind is dropped, also
\* while the accepted one is still suspended, so that of the two exactly one
\* is recorded.
C25_CheckAndStampAtomic == [](C25_State) /\ [][C25_Step]_vars

\* the second WINDOW_BLUR report was dropped 5000 ms after the first, which
\* was still suspended at its snapshot
C25_Witness ==
  /\ lastCall.type = "WINDOW_BLUR"
  /\ lastCall.n = 2
  /\ lastCall.id = 0
  /\ lastCall.at - lastCall.stamp = ClockStepMs
  /\ \E t \in pending : t.type = "WINDOW_BLUR"
  /\ Cardinality(Reports("WINDOW_BLUR")) = 1
  /\ violations = <<>>

MultiCycle(e) == e.res.count > 1

C28_State ==
  /\ \A k \in Cycles :
       "MULTIPLE_FACES" \in faceLog[k].kinds <=>
         /\ k >= 2
         /\ MultiCycle(faceLog[k - 1]) /\ MultiCycle(faceLog[k])
         /\ "MULTIPLE_FACES" \notin faceLog[k - 1].kinds
  /\ multiCount \in 0..1
  /\ multiCount = 1 <=>
       /\ Cycles # {}
       /\ MultiCycle(faceLog[Len(faceLog)])
       /\ "MULTIPLE_FACES" \notin faceLog[Len(faceLog)].kinds
  /\ Cardinality(Reports("MULTIPLE_FACES")) <= Cardinality(FiringCycles("MULTIPLE_FACES"))

C28_Step ==
  (Len(faceLog') = Len(faceLog) + 1 /\ MultiCycle(faceLog'[Len(faceLog')])) =>
    LET fire == "MULTIPLE_FACES" \in faceLog'[Len(faceLog')].kinds
    IN /\ missCount' = 0
       /\ mismatchCount' = 0
       /\ gazeAwayStartRef' = 0
       /\ multiCount' = IF fire THEN 0 ELSE multiCount + 1
       /\ fire <=> multiCount = 1
       /\ fire => /\ lastCall'.n = lastCall.n + 1
                   /\ lastCall'.type = "MULTIPLE_FACES"
                   /\ faceStatus' = "multiple"
       /\ ~fire => /\ lastCall' = lastCall
                    /\ pending' = pending
                    /\ faceStatus' = faceStatus

\* C28: a cycle that sees several faces increments the multi counter and
\* resets the miss counter, the mismatch counter and the gaze timer;
\* MULTIPLE_FACES is reported by exactly those cycles that are the second of
\* two consecutive multi-face cycles, the first of which did not report it,
\* and the reporting cycle leaves the multi counter at 0.
C28_MultipleFacesHysteresis == [](C28_State) /\ [][C28_Step]_vars

\* no face in cycle 1, a look-away in cycle 2, several faces in cycles 3-4:
\* one MULTIPLE_FACES, at 4, with the miss counter and the gaze timer cleared
C28_Witness ==
  /\ Len(faceLog) = 4
  /\ faceLog[1].res.count = 0
  /\ AwayCycle(faceLog[2])
  /\ MultiCycle(faceLog[3]) /\ MultiCycle(faceLog[4])
  /\ FiringCycles("MULTIPLE_FACES") = {4}
  /\ Cardinality(Reports("MULTIPLE_FACES")) = 1
  /\ missCount = 0 /\ gazeAwayStartRef = 0 /\ multiCount = 0

ClipUrls == {audioClips[k].dataUrl : k \in 1..Len(audioClips)}

C29_State ==
  \A i \in 1..Len(violations) :
    LET v == violations[i]
    IN /\ (v.type = "NOISE_DETECTED" /\ v.id \in ClipUrls) => v.audioUrl = v.id
       /\ v.audioUrl # NoShot =>
            (v.type = "NOISE_DETECTED" /\ v.audioUrl = v.id /\ v.id \in ClipUrls)

C29_Step ==
  /\ readers' # readers /\ readers' \subseteq readers =>
       /\ Len(audioClips') = Len(audioClips) + 1
       /\ \A k \in 1..Len(audioClips) : audioClips'[k] = audioClips[k]
       /\ {audioClips'[Len(audioClips')].dataUrl} = {r.id : r \in readers \ readers'}
       /\ Len(violations') = Len(violations)
       /\ \A i \in 1..Len(violations) :
            violations[i].id \notin {r.id : r \in readers \ readers'}
              => violations'[i] = violations[i]
  /\ readers' = readers => audioClips' = audioClips

\* C29: when the recording a noise flag started has been read, its clip is
\* the last of the audio-clip list, and the NOISE_DETECTED record with the
\* flag's identifier carries that clip whenever both exist, whether the
\* record's snapshot settled before or after the recording stopped; no other
\* record's audio reference is set or changed.
C29_ClipAttachedById == [](C29_State) /\ [][C29_Step]_vars

\* line 314: the browser offers no speech recognizer
NoSpeechSignal == ~speechSupported

C30_State ==
  NoSpeechSignal => Cardinality(Reports("AUDIO_DETECTED")) = Len(audioClips)

C30_Step ==
  LET loaded == readers \ readers'
      called == /\ lastCall'.n = lastCall.n + 1
                /\ lastCall'.type = "AUDIO_DETECTED"
      inWindow == /\ speechEndedAt # NoMs
                  /\ \A r \in loaded : /\ speechEndedAt >= r.triggerMs - 1000
                                       /\ speechEndedAt <= PerfNow + 500
  IN /\ (loaded # {} /\ NoSpeechSignal) =>
          /\ called
          /\ lastCall'.id # 0
          /\ \E t \in pending' \ pending : t.type = "AUDIO_DETECTED"
     /\ (loaded # {} /\ ~NoSpeechSignal) => (called <=> (isSpeechActive \/ inWindow))
     /\ (loaded = {} /\ lastCall'.n # lastCall.n) => lastCall'.type # "AUDIO_DETECTED"

ExitCaptures == {k \in 1..Len(captureLogs) : captureLogs[k].trigger = "fullscreen_exit"}

C26_State ==
  /\ fsEvents = 0 => (fullscreenBlocked <=> ~fullscreenElement)
  /\ \A k \in ExitCaptures : captureLogs[k].kind = "screen"
  /\ \A t \in pending : t.type = "FULLSCREEN_EXIT" => t.captureScreen

C26_Step ==
  /\ fsEvents' = fsEvents - 1 =>
       /\ fullscreenBlocked' <=> ~fullscreenElement
       /\ ~fullscreenElement =>
            /\ Cardinality(fsPending' \ fsPending) = 1
            /\ \A f \in fsPending' \ fsPending : f.sLive = ScreenLive
       /\ fullscreenElement =>
            /\ fsPending' = fsPending
            /\ lastCall' = lastCall
            /\ pending' = pending
            /\ violations' = violations
            /\ captureLogs' = captureLogs
  /\ fsPending' # fsPending /\ fsPending' \subseteq fsPending =>
       /\ lastCall'.n = lastCall.n + 1
       /\ lastCall'.type = "FULLSCREEN_EXIT"
       /\ \/ captureLogs' = captureLogs
          \/ /\ Len(captureLogs') = Len(captureLogs) + 1
             /\ captureLogs'[Len(captureLogs')].trigger = "fullscreen_exit"
             /\ captureLogs'[Len(captureLogs')].kind = "screen"
             /\ \A f \in fsPending \ fsPending' : f.sLive
  /\ fsPending' = fsPending =>
       \A k \in 1..Len(captureLogs') :
         captureLogs'[k].trigger = "fullscreen_exit" => k <= Len(captureLogs)

\* C26: when every fullscreenchange event has been handled, the blocking
\* state is set exactly when the document is out of fullscreen; the handler
\* of an exit takes a snapshot of the screen, logs it with the trigger
\* fullscreen_exit if it yielded an image, and reports FULLSCREEN_EXIT asking
\* for a screen capture; the handler of a return clears the blocking state
\* and appends nothing.
C26_FullscreenMonitor == [](C26_State) /\ [][C26_Step]_vars

\* the document left fullscreen and came back: the exit was captured and
\* recorded, and the blocking state is clear again
C26_Witness ==
  /\ fsChanges = 2 /\ fsEvents = 0
  /\ fullscreenElement /\ ~fullscreenBlocked
  /\ Cardinality(ExitCaptures) = 1
  /\ \E i \in 1..Len(violations) :
       violations[i].type = "FULLSCREEN_EXIT" /\ violations[i].screenShot # NoShot

Detects(scr) == scr.isExtended = "true" \/ scr.wide

C27_State ==
  /\ pollCount > 0 => (multiMonitorBlocked <=> Detects(lastPoll))
  /\ \A t \in pending :
       t.type = "MULTIPLE_MONITORS" => t.detail \in {REASON_MULTIPLE, REASON_EXTENDED}

C27_Step ==
  pollCount' = pollCount + 1 =>
    LET scr == lastPoll'
        reason == IF scr.isExtended = "true" THEN REASON_MULTIPLE ELSE REASON_EXTENDED
    IN /\ multiMonitorBlocked' <=> Detects(scr)
       /\ Detects(scr) =>
            /\ lastCall'.n = lastCall.n + 1
            /\ lastCall'.type = "MULTIPLE_MONITORS"
            /\ lastCall'.id # 0 =>
                 \E t \in pending' \ pending : t.id = lastCall'.id /\ t.detail = reason
       /\ ~Detects(scr) =>
            /\ lastCall' = lastCall
            /\ pending' = pending
       /\ violations' = violations
       /\ captureLogs' = captureLogs

\* C27: after every display poll the blocking state equals what the poll
\* detected (an extended screen, or an available width beyond the screen's
\* width); a detecting poll reports MULTIPLE_MONITORS with the reason of the
\* detection, a poll that detects nothing reports and appends nothing.
C27_DisplayPoll == [](C27_State) /\ [][C27_Step]_vars

\* a wide screen was detected and recorded with its reason, and the next
\* poll, seeing a single display, cleared the blocking state
C27_Witness ==
  /\ pollCount = 2
  /\ ~multiMonitorBlocked
  /\ \E i \in 1..Len(violations) :
       /\ violations[i].type = "MULTIPLE_MONITORS"
       /\ violations[i].detail = REASON_EXTENDED

\* ---------------------------------------------------------------------------
\* C31: a record's timestamp is the time its violation was detected, the moment
\* addViolation was called and the cooldown stamped, however long the snapshots
\* take.  Stated for the record of the most recent call, whose call time the
\* history variable lastCall keeps.
C31_TimestampAtDetection ==
  \A i \in 1..Len(violations) :
    violations[i].id = lastCall.id => violations[i].timestamp = lastCall.at

\* ---------------------------------------------------------------------------
\* the capture-log entries that a violation's snapshot left
ViolationEntries ==
  {j \in 1..Len(captureLogs) : captureLogs[j].trigger = "violation"}

\* the snapshot of the given source kind that record v carries
ShotOf(v, kind) == IF kind = "webcam" THEN v.webcamShot ELSE v.screenShot

\* C32: every snapshot a violation carries has a capture-log entry with
\* trigger `violation`, the same source kind and the same image, and every
\* capture-log entry with trigger `violation` is the snapshot of some
\* violation.
C32_CaptureLogMatchesSnapshots ==
  /\ \A i \in 1..Len(violations) : \A kind \in {"webcam", "screen"} :
       ShotOf(violations[i], kind) # NoShot
         => \E j \in ViolationEntries :
              /\ captureLogs[j].kind = kind
              /\ captureLogs[j].dataUrl = ShotOf(violations[i], kind)
  /\ \A j \in ViolationEntries :
       \E i \in 1..Len(violations) :
         /\ ShotOf(violations[i], captureLogs[j].kind) # NoShot
         /\ ShotOf(violations[i], captureLogs[j].kind) = captureLogs[j].dataUrl

\* a record with both snapshots and a record whose snapshots failed
C32_Witness ==
  /\ \E i \in 1..Len(violations) :
       violations[i].webcamShot # NoShot /\ violations[i].screenShot # NoShot
  /\ \E i \in 1..Len(violations) :
       violations[i].webcamShot = NoShot /\ violations[i].screenShot = NoShot
  /\ ViolationEntries # {}

\* ---------------------------------------------------------------------------
\* a detection cycle has run in this step
CycleRan == lastCheck' # lastCheck

\* the cycle of this step had no result: it logged nothing, or what it logged
\* is the missing result
NullCycle ==
  /\ CycleRan
  /\ \/ faceLog' = faceLog
     \/ ~faceLog'[Len(faceLog')].res.detected

\* C33: a detection cycle in which detectFaces yields no result is skipped:
\* it reports no violation, changes no status and leaves the miss, multi and
\* mismatch counters and the gaze timer as they were.
C33_Step ==
  NullCycle =>
    /\ UNCHANGED <<missCount, multiCount, mismatchCount, gazeAwayStartRef, faceStatus>>
    /\ UNCHANGED <<storeVars, faceLog>>

C33_NullCycleSkipped == [][C33_Step]_vars

\* a cycle without a result has run after the last cycle with one, while a
\* look-away was being timed or a miss was counted
C33_Witness ==
  /\ Len(faceLog) > 0
  /\ lastCheck > faceLog[Len(faceLog)].at
  /\ missCount > 0 \/ gazeAwayStartRef # 0

\* ---------------------------------------------------------------------------
\* the calibration window in ascending order
SortedWindow(samples) ==
  [i \in 1..SampleCount(samples) |->
     IF i <= samples[QuietLevel] THEN QuietLevel ELSE LoudLevel]

\* nothing of a noise flag exists: no record, no pending record, no recorder
NoNoiseYet ==
  /\ Reports("NOISE_DETECTED") = {}
  /\ NoiseTasks(pending) = {}
  /\ recorders = {} /\ ~saving
  /\ lastNoiseFlagMs = NoMs /\ noiseLog = <<>>

\* C34 (state): until the calibration window holds 120 samples the monitor is
\* not calibrated, nothing is flagged and no recording starts
C34_State ==
  /\ calibrated <=> SampleCount(calSamples) >= CALIBRATION_FRAMES
  /\ ~calibrated => NoNoiseYet /\ baseline = DEFAULT_BASELINE

\* C34 (step): the sample that completes the window flags nothing and sets
\* the baseline to the element at index floor(0.8 * 120) of the sorted window
\* (sequences count from 1); afterwards the window and the baseline stay
C34_Step ==
  /\ (~calibrated /\ calibrated')
       => /\ SampleCount(calSamples') = CALIBRATION_FRAMES
          /\ baseline' = SortedWindow(calSamples')[(CALIBRATION_FRAMES * 4) \div 5 + 1]
          /\ NoNoiseYet'
  /\ calibrated => calibrated' /\ baseline' = baseline /\ calSamples' = calSamples

\* C34: the audio calibration
C34_Calibration == C34_State /\ [][C34_Step]_vars

\* a window with a loud element at the percentile's index and a quiet one
\* just below it has set the baseline
C34_Witness ==
  /\ calibrated
  /\ calSamples[LoudLevel] = CALIBRATION_FRAMES - (CALIBRATION_FRAMES * 4) \div 5
  /\ baseline = LoudLevel

\* a quiet window has set the baseline and a noise flag has followed
C34_WitnessQuiet ==
  /\ calibrated
  /\ baseline = QuietLevel
  /\ calSamples[LoudLevel] > 0
  /\ Reports("NOISE_DETECTED") # {}

\* ---------------------------------------------------------------------------
\* record b is record a, but for the fields a patch may write
SameButPatched(a, b) ==
  /\ b.id = a.id /\ b.type = a.type /\ b.severity = a.severity
  /\ b.timestamp = a.timestamp
  /\ b.webcamShot = a.webcamShot /\ b.screenShot = a.screenShot
  /\ b.detail = a.detail
  /\ b.awayMs # a.awayMs => a.type = "TAB_SWITCH"
  /\ b.audioUrl # a.audioUrl => a.type = "NOISE_DETECTED"

\* C35: the violation list is append-only: every step keeps the records it
\* had, in their order, with their identity, kind, severity and timestamp;
\* the only fields that change on a record in the list are the away-duration
\* of a TAB_SWITCH record and the audio reference of a NOISE_DETECTED record.
C35_Step ==
  /\ Len(violations') >= Len(violations)
  /\ \A i \in 1..Len(violations) : SameButPatched(violations[i], violations'[i])

C35_AppendOnly == [][C35_Step]_vars

\* a patched TAB_SWITCH record and a NOISE_DETECTED record with its clip,
\* the noise record not being the newest
C35_Witness ==
  /\ \E i \in 1..Len(violations) :
       violations[i].type = "TAB_SWITCH" /\ violations[i].awayMs # NoMs
  /\ \E i \in 1..Len(violations) :
       /\ violations[i].type = "NOISE_DETECTED" /\ violations[i].audioUrl # 0
       /\ i < Len(violations)

\* ---------------------------------------------------------------------------
\* a finalize delivers a payload in this step, and the callbacks it runs are
\* those of a committed render (no render is outstanding)
DeliversCommitted ==
  /\ Len(delivered') > Len(delivered)
  /\ doFinishTimeLeft = timeLeft

\* C36: the elapsed time of a delivered payload is the configured duration
\* minus the time remaining when finalize is invoked: the full duration on
\* time-up, the seconds that have elapsed on every other path.
C36_Step ==
  DeliversCommitted =>
    LET p == delivered'[Len(delivered')]
    IN p.timeSpent = IF p.cb = "onTimeUp" THEN Duration ELSE Duration - timeLeft

C36_ElapsedTimeDelivered == [][C36_Step]_vars

\* ---------------------------------------------------------------------------
\* C37: once the session is finalized, a re-share that was still pending
\* installs no replacement source: no screen, webcam or microphone track is
\* live after any later step, screen-share health is not set back to true and
\* no new stop listener is armed (no stream joins the tracked ones).
C37_Step ==
  submittedRef =>
    /\ \A i \in 1..Len(screens') : ~screens'[i].live
    /\ ~webcamLive' /\ ~micLive'
    /\ screenOk' => screenOk
    /\ Len(screens') = Len(screens)

C37_NoReshareAfterFinalize == [][C37_Step]_vars

\* ---------------------------------------------------------------------------
\* C38: every detectFaces call of the loop terminates, with a result or with
\* null, also when an earlier load of the landmark model has failed; the
\* loop then schedules its next frame.
C38_DetectTerminates == (detecting # "idle") ~> (detecting = "idle")

\* ---------------------------------------------------------------------------
\* the identifiers of the NOISE_DETECTED flags raised so far
NoiseFlags == Reports("NOISE_DETECTED")

\* C39 (state): at most one recorder is recording, the in-progress marker is
\* set exactly while one is (it is cleared when the recorder stops and when
\* it could not be constructed), and the voice-frame counter is not negative
C39_State ==
  /\ Cardinality(recorders) <= 1
  /\ saving <=> recorders # {}
  /\ voiceFrames >= 0

\* C39 (step): while a recording has not stopped, nothing is flagged and no
\* recorder is started
C39_Step ==
  recorders # {} =>
    /\ NoiseFlags' = NoiseFlags
    /\ recorders' \subseteq recorders

C39_WitnessFailedStart ==
  /\ \E i \in 1..Len(noiseLog) : noiseLog[i].flagged /\ ~noiseLog[i].recorderAvailable
  /\ Cardinality(NoiseFlags) >= 2

\* ---------------------------------------------------------------------------
\* C40: after every detection cycle at most one of the miss, multi and
\* mismatch counters is non-zero, miss <= 2, multi <= 1 and mismatch <= 2,
\* and the gaze-away timer runs only when the last cycle that had a result
\* saw exactly one face.
C40_Counters ==
  /\ \/ missCount = 0 /\ multiCount = 0
     \/ missCount = 0 /\ mismatchCount = 0
     \/ multiCount = 0 /\ mismatchCount = 0
  /\ missCount \in 0..2
  /\ multiCount \in 0..1
  /\ mismatchCount \in 0..2
  /\ gazeAwayStartRef # 0 =>
       /\ Len(faceLog) > 0
       /\ faceLog[Len(faceLog)].res.count = 1

\* the mismatch counter is at its bound while a look-away is being timed,
\* after both other counters have been at their bounds
C40_Witness ==
  /\ mismatchCount = 2
  /\ gazeAwayStartRef # 0
  /\ \E i, j \in Cycles :
       /\ i + 1 < j
       /\ faceLog[i].res.count = 0 /\ faceLog[i + 1].res.count = 0
       /\ faceLog[j].res.count = 2
====
